---- MODULE Spec2Model ----
(***************************************************************************)
(* A model of discopy's free monoidal category (discopy/monoidal.py):      *)
(* types, boxes, layers and diagrams, with sequential composition, tensor, *)
(* dagger, encode/decode and the rewriting operations bound to Diagram at  *)
(* monoidal.py:786-790.                                                    *)
(*                                                                         *)
(* A type (Ty) is the tuple of its objects' names.  A box is a record      *)
(* [name, dom, cod, is_dagger].  A layer is its tuple boxes_or_types: a    *)
(* type, a box, a type, ... (Layer.__iter__).  A diagram is a record       *)
(* [inside, dom, cod] with inside the tuple of its layers.                 *)
(*                                                                         *)
(* discopy/cat.py (Arrow.then, Arrow.id, Arrow.dagger, Box.dagger) and     *)
(* discopy/rewriting.py (interchange, normalize, normal_form) are not      *)
(* among the sources; the operators that stand for them follow the         *)
(* specification document and say so where they are defined.               *)
(***************************************************************************)
EXTENDS Integers, Sequences, FiniteSets, TLC

VARIABLES f, g, out, pc, nf, moves

vars == <<f, g, out, pc, nf, moves>>

(***************************************************************************)
(* Bounds of the model.                                                    *)
(***************************************************************************)
MaxLayers == 2

MaxOperandLayers == 1

MaxWidth == 3

MaxNormalLayers == 4

MaxNormalWidth == 3

MaxMoves == 30

Min(a, b) == IF a <= b THEN a ELSE b

(***************************************************************************)
(* Types: Ty.tensor is concatenation of the objects inside; a slice        *)
(* t[a:b] is Python's, clamped to the length of the type.                  *)
(***************************************************************************)
Ty(objs) == objs

TyTensorReversed(t, u) == u \o t

TyTensor(t, u) == t \o u

\* Ty.tensor(*others): the objects of self, then those of each of the
\* others in turn.
RECURSIVE TyObjectsFrom(_, _)
TyObjectsFrom(others, i) ==
    IF i > Len(others) THEN <<>>
    ELSE others[i] \o TyObjectsFrom(others, i + 1)

TyTensorAll(t, others) == t \o TyObjectsFrom(others, 1)

TySlice(t, a, b) == SubSeq(t, Min(a, Len(t)) + 1, Min(b, Len(t)))

TyFrom(t, a) == TySlice(t, a, Len(t))

Objects == {"x", "y"}

AtomicTypes == {<<o>> : o \in Objects}

SmallTypes == {<<>>} \cup AtomicTypes \cup {<<"x", "x">>, <<"x", "y">>}

(***************************************************************************)
(* Boxes.                                                                  *)
(***************************************************************************)
Box(name, dom, cod) ==
    [name |-> name, dom |-> dom, cod |-> cod, is_dagger |-> FALSE]

BoxDagger(b) ==
    [name |-> b.name, dom |-> b.cod, cod |-> b.dom, is_dagger |-> ~b.is_dagger]

Boxes ==
    { Box("s0", <<>>, <<>>), Box("s1", <<>>, <<>>),
      Box("a", <<>>, <<"x">>),
      Box("f0", <<"x">>, <<"y">>),
      Box("h", <<"x", "x">>, <<"y">>) }

(***************************************************************************)
(* Layers.  LayerDom and LayerCod are the dom and cod Layer.__init__       *)
(* computes by successive concatenation over boxes_or_types.               *)
(***************************************************************************)
Layer(left, box, right) == <<left, box, right>>

RECURSIVE LayerDomFrom(_, _)
LayerDomFrom(l, i) ==
    IF i > Len(l) THEN <<>>
    ELSE (IF i % 2 = 0 THEN l[i].dom ELSE l[i]) \o LayerDomFrom(l, i + 1)

RECURSIVE LayerCodFrom(_, _)
LayerCodFrom(l, i) ==
    IF i > Len(l) THEN <<>>
    ELSE (IF i % 2 = 0 THEN l[i].cod ELSE l[i]) \o LayerCodFrom(l, i + 1)

LayerDom(l) == LayerDomFrom(l, 1)

LayerCod(l) == LayerCodFrom(l, 1)

LayerMatmulLeft(l, t) == <<TyTensor(t, l[1])>> \o Tail(l)

LayerMatmul(l, t) == SubSeq(l, 1, Len(l) - 1) \o <<TyTensor(l[Len(l)], t)>>

LayerRmatmulRight(t, l) == <<TyTensor(l[1], t)>> \o Tail(l)

LayerRmatmul(t, l) == <<TyTensor(t, l[1])>> \o Tail(l)

LayerCast(box) == Layer(TySlice(box.dom, 0, 0), box, TyFrom(box.dom, Len(box.dom)))

LayerDaggerKeepsBoxes(l) == l

LayerDagger(l) == [i \in 1..Len(l) |-> IF i % 2 = 0 THEN BoxDagger(l[i]) ELSE l[i]]

(***************************************************************************)
(* Diagrams.                                                               *)
(***************************************************************************)
Diagram(inside, dom, cod) == [inside |-> inside, dom |-> dom, cod |-> cod]

Id(t) == Diagram(<<>>, t, t)

NoDiagram == Id(<<>>)

BoxDiagram(box) == Diagram(<<LayerCast(box)>>, box.dom, box.cod)

Composable(d, e) == d.cod = e.dom

thenKeepsCod(d, e) == Diagram(d.inside \o e.inside, d.dom, d.cod)

thenReversed(d, e) == Diagram(e.inside \o d.inside, d.dom, e.cod)

then(d, e) == Diagram(d.inside \o e.inside, d.dom, e.cod)

\* Box.__eq__ against a diagram that is not a box: the diagram's layers are
\* the one layer cast from the box.
BoxEq(box, other) == other.inside = <<LayerCast(box)>>

tensorOtherFirst(d, e) ==
    Diagram([i \in 1..Len(e.inside) |-> LayerRmatmul(d.dom, e.inside[i])]
              \o [i \in 1..Len(d.inside) |-> LayerMatmul(d.inside[i], e.cod)],
            TyTensor(d.dom, e.dom), TyTensor(d.cod, e.cod))

tensor(d, e) ==
    Diagram([i \in 1..Len(d.inside) |-> LayerMatmul(d.inside[i], e.dom)]
              \o [i \in 1..Len(e.inside) |-> LayerRmatmul(d.cod, e.inside[i])],
            TyTensor(d.dom, e.dom), TyTensor(d.cod, e.cod))

dagger(d) ==
    Diagram([i \in 1..Len(d.inside) |->
                LayerDagger(d.inside[Len(d.inside) + 1 - i])],
            d.cod, d.dom)

boxes(d) == [i \in 1..Len(d.inside) |-> d.inside[i][2]]

offsetsFromRight(d) == [i \in 1..Len(d.inside) |-> Len(d.inside[i][3])]

offsets(d) == [i \in 1..Len(d.inside) |-> Len(d.inside[i][1])]

(***************************************************************************)
(* Diagram.decode: starting from the identity on dom, compose with         *)
(* left @ box @ right for each (box, offset); the composition raises when  *)
(* the box's domain is not the slice of the codomain at its offset.        *)
(***************************************************************************)
Whisker(left, box, right) == tensor(tensor(Id(left), BoxDiagram(box)), Id(right))

RECURSIVE DecodeFrom(_, _, _)
DecodeFrom(diagram, boxes_and_offsets, k) ==
    IF k > Len(boxes_and_offsets) THEN [ok |-> TRUE, val |-> diagram]
    ELSE LET box == boxes_and_offsets[k].box
             offset == boxes_and_offsets[k].offset
             left == TySlice(diagram.cod, 0, offset)
             right == TyFrom(diagram.cod, offset + Len(box.dom))
             layer == Whisker(left, box, right)
         IN  IF Composable(diagram, layer)
             THEN DecodeFrom(then(diagram, layer), boxes_and_offsets, k + 1)
             ELSE [ok |-> FALSE, val |-> diagram]

decode(dom, boxes_and_offsets) == DecodeFrom(Id(dom), boxes_and_offsets, 1)

encode(d) ==
    [dom |-> d.dom,
     boxes_and_offsets |->
        [i \in 1..Len(d.inside) |-> [box |-> boxes(d)[i], offset |-> offsets(d)[i]]]]

(***************************************************************************)
(* Errors.  A raise statement names an exception class and a constant of   *)
(* discopy/messages.py; looking up a constant the module does not define   *)
(* raises AttributeError before the exception is built.                    *)
(***************************************************************************)
messages ==
    {"TYPE_ERROR", "NOT_COMPOSABLE", "NOT_PARALLEL", "NOT_ATOMIC",
     "NOT_CONNECTED", "NOT_ADJOINT", "NOT_RIGID_ADJOINT", "NOT_PREGROUP",
     "MISSING_TYPES_FOR_EMPTY_SUM"}

Raise(exception, message) ==
    IF message \in messages THEN exception ELSE "AttributeError"

Failure(err) == [ok |-> FALSE, err |-> err, val |-> <<>>]

Success(val) == [ok |-> TRUE, err |-> "", val |-> val]

(***************************************************************************)
(* Layer.__init__(left, box, right, *more) on arbitrary arguments, each a  *)
(* record with one field naming its class: Ty, Box, or Diagram for a       *)
(* diagram that is not a box.  Fewer than three arguments is Python's TypeError.  In the   *)
(* loop the positions are counted from 0 in the code and from 1 here: at a *)
(* box position the code asserts that the parameter box (the second        *)
(* argument) is a Box, then reads the dom and cod of the argument at hand, *)
(* which a type does not have; at a type position it asserts a Ty.         *)
(***************************************************************************)
Kind(item) == CHOOSE k \in DOMAIN item : TRUE

Val(item) == item[Kind(item)]

RECURSIVE LayerScan(_, _)
LayerScan(items, i) ==
    IF i > Len(items) THEN ""
    ELSE IF i % 2 = 0
    THEN IF Kind(items[2]) # "Box" THEN "TypeError"
         ELSE IF Kind(items[i]) = "Ty" THEN "AttributeError"
         ELSE LayerScan(items, i + 1)
    ELSE IF Kind(items[i]) # "Ty" THEN "TypeError"
         ELSE LayerScan(items, i + 1)

LayerInit(items) ==
    IF Len(items) < 3 THEN Failure("TypeError")
    ELSE IF (Len(items) - 3) % 2 = 1
    THEN Failure(Raise("ValueError", "LAYERS_MUST_BE_ODD"))
    ELSE IF LayerScan(items, 1) # "" THEN Failure(LayerScan(items, 1))
    ELSE Success([i \in 1..Len(items) |-> Val(items[i])])

(***************************************************************************)
(* Layer.boxes_and_offsets: the first box at len(left); for each further   *)
(* (typ, box) the box is appended to boxes first, so that boxes[-1] in     *)
(* offsets[-1] + len(boxes[-1].dom) + len(typ) is that same box.           *)
(***************************************************************************)
NumBoxes(l) == (Len(l) - 1) \div 2

RECURSIVE LayerOffset(_, _)
LayerOffset(l, k) ==
    IF k = 1 THEN Len(l[1])
    ELSE LayerOffset(l, k - 1) + Len(l[2 * k].dom) + Len(l[2 * k - 1])

LayerBoxesAndOffsets(l) ==
    [k \in 1..NumBoxes(l) |-> [box |-> l[2 * k], offset |-> LayerOffset(l, k)]]

(***************************************************************************)
(* Layer.merge.  sorted(..., key=offset) is stable: among equal offsets    *)
(* the boxes of self come before those of other.                           *)
(***************************************************************************)
RECURSIVE InsertByOffset(_, _)
InsertByOffset(sorted, e) ==
    IF sorted = <<>> THEN <<e>>
    ELSE IF Head(sorted).offset <= e.offset
    THEN <<Head(sorted)>> \o InsertByOffset(Tail(sorted), e)
    ELSE <<e>> \o sorted

RECURSIVE SortedByOffset(_, _)
SortedByOffset(s, k) ==
    IF k = 0 THEN <<>> ELSE InsertByOffset(SortedByOffset(s, k - 1), s[k])

RECURSIVE MergeScan(_, _, _, _)
MergeScan(dom, bo, k, scan) ==
    IF k > Len(bo) THEN Success(<<TyFrom(dom, scan)>>)
    ELSE IF scan > bo[k].offset
    THEN Failure(Raise("AxiomError", "NOT_MERGEABLE"))
    ELSE LET rest == MergeScan(dom, bo, k + 1, bo[k].offset + Len(bo[k].box.dom))
         IN  IF rest.ok
             THEN Success(<<TySlice(dom, scan, bo[k].offset), bo[k].box>> \o rest.val)
             ELSE rest

merge(self, other) ==
    IF LayerCod(self) # LayerDom(other)
    THEN Failure(Raise("AxiomError", "NOT_COMPOSABLE"))
    ELSE LET all == LayerBoxesAndOffsets(self) \o LayerBoxesAndOffsets(other)
         IN  MergeScan(LayerDom(self), SortedByOffset(all, Len(all)), 1, 0)

(***************************************************************************)
(* interchange(i, i + 1), after the specification document (section 4.4):  *)
(* layer i at offset o_i commutes with layer i + 1 at offset o_(i+1) iff   *)
(* o_i + w_i <= o_(i+1) (the first box lies left of the second) or         *)
(* o_(i+1) + w_(i+1) <= o_i (it lies right of it), the widths being those  *)
(* on the wires between the two layers: the first box's codomain and the   *)
(* second box's domain.  The move swaps the two boxes and shifts the one   *)
(* on the right by the change in width of the one on the left; the result  *)
(* is rebuilt from boxes and offsets by decode.  The document does not say *)
(* which way the move goes when both conditions hold, so the operator      *)
(* gives the set of outcomes; it is empty when the move is refused.        *)
(* The index i counts from 0, as in the code.                              *)
(***************************************************************************)
LeftOf(d, i) ==
    offsets(d)[i + 1] + Len(boxes(d)[i + 1].cod) <= offsets(d)[i + 2]

RightOf(d, i) ==
    offsets(d)[i + 2] + Len(boxes(d)[i + 2].dom) <= offsets(d)[i + 1]

Swapped(d, i, off0, off1) ==
    [k \in 1..Len(d.inside) |->
        IF k = i + 1 THEN [box |-> boxes(d)[i + 2], offset |-> off1]
        ELSE IF k = i + 2 THEN [box |-> boxes(d)[i + 1], offset |-> off0]
        ELSE [box |-> boxes(d)[k], offset |-> offsets(d)[k]]]

MoveLeftOf(d, i) ==
    LET box0 == boxes(d)[i + 1]
        off0 == offsets(d)[i + 1]
        off1 == offsets(d)[i + 2]
    IN  decode(d.dom, Swapped(d, i, off0, off1 - Len(box0.cod) + Len(box0.dom)))

MoveRightOf(d, i) ==
    LET box1 == boxes(d)[i + 2]
        off0 == offsets(d)[i + 1]
        off1 == offsets(d)[i + 2]
    IN  decode(d.dom, Swapped(d, i, off0 - Len(box1.dom) + Len(box1.cod), off1))

interchange(d, i) ==
    (IF LeftOf(d, i) THEN {MoveLeftOf(d, i)} ELSE {})
      \cup (IF RightOf(d, i) THEN {MoveRightOf(d, i)} ELSE {})

(***************************************************************************)
(* normal_form, after the specification document (sections 4.4 and 7).     *)
(* It first checks its precondition and fails with NotConnected on a       *)
(* diagram that is not boundary-connected (messages.NOT_CONNECTED): one    *)
(* with a box joined by no path of wires to the domain or the codomain.    *)
(* It then commutes boxes leftward until no leftward move is left: a move  *)
(* is possible at i when the box of layer i + 1 lies left of the box of    *)
(* layer i, o_(i+1) + w_(i+1) <= o_i, and brings it in front.  The rule is *)
(* deterministic: the first such i is taken.                               *)
(***************************************************************************)
RECURSIVE WireEdges(_, _, _)
WireEdges(d, k, src) ==
    IF k > Len(d.inside)
    THEN {<<src[j], 0>> : j \in 1..Len(src)}
    ELSE LET off == offsets(d)[k]
             box == boxes(d)[k]
             m == Len(box.dom)
         IN  {<<src[j], k>> : j \in (off + 1)..(off + m)}
               \cup WireEdges(d, k + 1,
                      SubSeq(src, 1, off) \o [j \in 1..Len(box.cod) |-> k]
                        \o SubSeq(src, off + m + 1, Len(src)))

RECURSIVE Reach(_, _, _)
Reach(edges, seen, n) ==
    IF n = 0 THEN seen
    ELSE Reach(edges,
               seen \cup {e[1] : e \in {q \in edges : q[2] \in seen}}
                    \cup {e[2] : e \in {q \in edges : q[1] \in seen}},
               n - 1)

BoundaryConnected(d) ==
    LET edges == WireEdges(d, 1, [j \in 1..Len(d.dom) |-> 0])
    IN  Reach(edges, {0}, Len(d.inside)) = 0..Len(d.inside)

LeftwardMoves(d) == {i \in 0..(Len(d.inside) - 2) : RightOf(d, i)}

FindMove(d) == CHOOSE i \in LeftwardMoves(d) : \A j \in LeftwardMoves(d) : i <= j

Move(d, i) == MoveRightOf(d, i).val


NormalizeOnce(d, fuel) ==
    IF LeftwardMoves(d) = {} THEN [ok |-> TRUE, val |-> d]
    ELSE [ok |-> TRUE, val |-> Move(d, FindMove(d))]

RECURSIVE Normalize(_, _)
Normalize(d, fuel) ==
    IF LeftwardMoves(d) = {} THEN [ok |-> TRUE, val |-> d]
    ELSE IF fuel = 0 THEN [ok |-> FALSE, val |-> d]
    ELSE Normalize(Move(d, FindMove(d)), fuel - 1)

normal_form(d) ==
    IF BoundaryConnected(d) THEN Normalize(d, MaxMoves)
    ELSE [ok |-> FALSE, val |-> NoDiagram]

(***************************************************************************)
(* foliation and depth, after the specification document (section 4.4):    *)
(* the layers are scanned from the first to the last and each is merged    *)
(* into the current front by Layer.merge when merge reports no conflict; a *)
(* new front is started otherwise.  depth is the number of fronts.         *)
(***************************************************************************)
RECURSIVE Foliate(_, _, _)
Foliate(layers, k, front) ==
    IF k > Len(layers) THEN <<front>>
    ELSE LET r == merge(front, layers[k])
         IN  IF r.ok THEN Foliate(layers, k + 1, r.val)
             ELSE <<front>> \o Foliate(layers, k + 1, layers[k])

foliation(d) ==
    IF d.inside = <<>> THEN d
    ELSE Diagram(Foliate(d.inside, 2, d.inside[1]), d.dom, d.cod)

depth(d) == Len(foliation(d).inside)

(***************************************************************************)
(* Functors.  A functor is its object map and its box map; __call__        *)
(* dispatches on what it is given.  On a type it sums the images of the    *)
(* objects from the empty type; on a layer it multiplies the images of     *)
(* boxes_or_types from left to right with @, which whiskers a type into    *)
(* the identity on it; on a diagram (cat.Functor.__call__, described in    *)
(* section 4.5) it composes the images of the layers from the identity on  *)
(* the image of the domain.                                                *)
(***************************************************************************)
Functor(ob, ar) == [ob |-> ob, ar |-> ar]

FunctorOb(self, o) == self.ob[o]

RECURSIVE FunctorTySum(_, _, _)
FunctorTySum(self, t, k) ==
    IF k = 0 THEN Ty(<<>>)
    ELSE TyTensor(FunctorTySum(self, t, k - 1), FunctorOb(self, t[k]))

FunctorTy(self, t) == FunctorTySum(self, t, Len(t))

FunctorBox(self, box) == self.ar[box]

FunctorMatmulFlipped(result, image) == tensor(image, result)

FunctorMatmul(result, image) == tensor(result, image)

RECURSIVE FunctorLayerResult(_, _, _)
FunctorLayerResult(self, l, k) ==
    IF k = 1 THEN Id(FunctorTy(self, l[1]))
    ELSE FunctorMatmul(FunctorLayerResult(self, l, k - 1),
                       IF k % 2 = 0 THEN FunctorBox(self, l[k])
                       ELSE Id(FunctorTy(self, l[k])))

FunctorLayer(self, l) == FunctorLayerResult(self, l, Len(l))

RECURSIVE FunctorArrow(_, _, _)
FunctorArrow(self, d, k) ==
    IF k = 0 THEN Id(FunctorTy(self, d.dom))
    ELSE then(FunctorArrow(self, d, k - 1), FunctorLayer(self, d.inside[k]))

FunctorDiagram(self, d) == FunctorArrow(self, d, Len(d.inside))

(***************************************************************************)
(* The functor applied: x goes to y, y to x @ x, and every box to a        *)
(* diagram from the image of its dom to the image of its cod: one of no    *)
(* layer, of one layer or of two; the dagger of a box goes to the dagger   *)
(* of the image of the box.                                                *)
(***************************************************************************)
ObMap == [o \in Objects |-> IF o = "x" THEN Ty(<<"y">>) ELSE Ty(<<"x", "x">>)]

ImageOfBox(b) ==
    CASE b.name = "s0" -> BoxDiagram(Box("s1", <<>>, <<>>))
      [] b.name = "s1" -> Id(Ty(<<>>))
      [] b.name = "a"  -> BoxDiagram(Box("b", <<>>, <<"y">>))
      [] b.name = "f0" -> BoxDiagram(Box("g0", <<"y">>, <<"x", "x">>))
      [] b.name = "h"  -> then(BoxDiagram(Box("m", <<"y", "y">>, <<"y">>)),
                               BoxDiagram(Box("g0", <<"y">>, <<"x", "x">>)))

ArMap ==
    [b \in Boxes \cup {BoxDagger(c) : c \in Boxes} |->
        IF b.is_dagger THEN dagger(ImageOfBox(BoxDagger(b))) ELSE ImageOfBox(b)]

F == Functor(ObMap, ArMap)

(***************************************************************************)
(* The state: two registers holding diagrams and the outcome of the last   *)
(* operation applied to them.                                              *)
(***************************************************************************)
Idle == [op |-> "idle", a |-> NoDiagram, b |-> NoDiagram, i |-> 0,
         ok |-> TRUE, val |-> NoDiagram]

Outcome(op, a, b, i, ok, val) ==
    [op |-> op, a |-> a, b |-> b, i |-> i, ok |-> ok, val |-> val]

ThenOutcome(a, b) ==
    IF Composable(a, b)
    THEN Outcome("then", a, b, 0, TRUE, then(a, b))
    ELSE Outcome("then", a, b, 0, FALSE, NoDiagram)

RECURSIVE MaxLen(_, _)
MaxLen(layers, i) ==
    IF i > Len(layers) THEN 0
    ELSE LET m == MaxLen(layers, i + 1)
             n == Len(LayerCod(layers[i]))
         IN  IF n >= m THEN n ELSE m

Fits(d, n) ==
    /\ Len(d.inside) <= n
    /\ Len(d.dom) <= MaxWidth
    /\ MaxLen(d.inside, 1) <= MaxWidth

\* Diagram.width: max(len(dom), max(len(layer.cod) for layer in self)); the
\* inner max is taken over the layers alone and raises ValueError when
\* there is none.
width(d) ==
    IF Len(d.inside) = 0 THEN Failure("ValueError")
    ELSE LET m == MaxLen(d.inside, 1)
         IN  Success(IF Len(d.dom) >= m THEN Len(d.dom) ELSE m)

Init ==
    /\ f = Id(<<>>)
    /\ g = Id(<<>>)
    /\ out = Idle
    /\ pc = "idle"
    /\ nf = NoDiagram
    /\ moves = 0

MkBox ==
    /\ pc = "idle" /\ out.op = "idle"
    /\ \E box \in Boxes : g' = BoxDiagram(box)
    /\ out' = Idle
    /\ UNCHANGED <<f, pc, nf, moves>>

MkId ==
    /\ pc = "idle" /\ out.op = "idle"
    /\ \E t \in SmallTypes : g' = Id(t)
    /\ out' = Idle
    /\ UNCHANGED <<f, pc, nf, moves>>

Operands == {g, dagger(f)}

Then ==
    /\ pc = "idle" /\ out.op = "idle"
    /\ \E other \in Operands, swap \in BOOLEAN :
         LET a == IF swap THEN other ELSE f
             b == IF swap THEN f ELSE other
         IN  out' = ThenOutcome(a, b)
    /\ UNCHANGED <<f, g, pc, nf, moves>>

TensorInPlace ==
    /\ pc = "idle" /\ out.op = "idle"
    /\ \E other \in Operands :
         /\ out' = Outcome("tensor", f, other, 0, TRUE, tensor(f, other))
         /\ f' = IF Fits(tensor(f, other), MaxLayers) THEN tensor(f, other) ELSE f
    /\ UNCHANGED <<g, pc, nf, moves>>

Tensor ==
    /\ pc = "idle" /\ out.op = "idle"
    /\ \E other \in Operands, swap \in BOOLEAN :
         LET a == IF swap THEN other ELSE f
             b == IF swap THEN f ELSE other
         IN  out' = Outcome("tensor", a, b, 0, TRUE, tensor(a, b))
    /\ UNCHANGED <<f, g, pc, nf, moves>>

Dagger ==
    /\ pc = "idle" /\ out.op = "idle"
    /\ out' = Outcome("dagger", f, NoDiagram, 0, TRUE, dagger(f))
    /\ UNCHANGED <<f, g, pc, nf, moves>>

Interchange ==
    /\ pc = "idle" /\ out.op = "idle"
    /\ \E i \in 0..(Len(f.inside) - 2) :
         IF interchange(f, i) = {}
         THEN out' = Outcome("interchange", f, NoDiagram, i, FALSE, NoDiagram)
         ELSE \E r \in interchange(f, i) :
                out' = Outcome("interchange", f, NoDiagram, i, r.ok, r.val)
    /\ UNCHANGED <<f, g, pc, nf, moves>>

TakeF ==
    /\ pc = "idle"
    /\ out.op # "idle" /\ out.ok
    /\ Fits(out.val, MaxLayers)
    /\ f' = out.val
    /\ out' = Idle
    /\ UNCHANGED <<g, pc, nf, moves>>

TakeG ==
    /\ pc = "idle"
    /\ out.op # "idle" /\ out.ok
    /\ Fits(out.val, MaxOperandLayers)
    /\ g' = out.val
    /\ out' = Idle
    /\ UNCHANGED <<f, pc, nf, moves>>

Discard ==
    /\ pc = "idle"
    /\ out.op # "idle"
    /\ out' = Idle
    /\ UNCHANGED <<f, g, pc, nf, moves>>

Width ==
    /\ pc = "idle" /\ out.op = "idle"
    /\ LET r == width(f)
       IN  out' = Outcome("width", f, NoDiagram, IF r.ok THEN r.val ELSE 0,
                          r.ok, NoDiagram)
    /\ UNCHANGED <<f, g, pc, nf, moves>>

ApplyFunctor ==
    /\ pc = "idle" /\ out.op = "idle"
    /\ pc' = "applied"
    /\ out' = Outcome("functor", f, g, 0, TRUE, FunctorDiagram(F, f))
    /\ UNCHANGED <<f, g, nf, moves>>

FunctorReturn ==
    /\ pc = "applied"
    /\ pc' = "idle"
    /\ out' = Idle
    /\ UNCHANGED <<f, g, nf, moves>>

Next ==
    \/ MkBox \/ MkId \/ Then \/ Tensor \/ Dagger \/ Interchange
    \/ TakeF \/ TakeG \/ Discard \/ ApplyFunctor \/ FunctorReturn \/ Width

Spec == Init /\ [][Next]_vars

(***************************************************************************)
(* normal_form as a process: a diagram is built layer by layer, then       *)
(* normalised one interchange move at a time, the moves taken in any       *)
(* order.                                                                  *)
(***************************************************************************)
NormalBoxes ==
    (Boxes \ {Box("s1", <<>>, <<>>)})
      \cup {BoxDagger(b) : b \in {c \in Boxes : c.dom # c.cod}}

InitNormal ==
    /\ f \in {Id(t) : t \in {<<>>, <<"x">>, <<"y">>, <<"x", "x">>}}
    /\ g = NoDiagram
    /\ out = Idle
    /\ pc = "build"
    /\ nf = NoDiagram
    /\ moves = 0

AppendLayer ==
    /\ pc = "build"
    /\ Len(f.inside) < MaxNormalLayers
    /\ \E box \in NormalBoxes, offset \in 0..Len(f.cod) :
         LET r == DecodeFrom(f, <<[box |-> box, offset |-> offset]>>, 1)
         IN  /\ r.ok
             /\ Len(r.val.cod) <= MaxNormalWidth
             /\ f' = r.val
    /\ UNCHANGED <<g, out, pc, nf, moves>>

StartNormalForm ==
    /\ pc = "build"
    /\ IF BoundaryConnected(f)
       THEN pc' = "normalize" /\ nf' = f
       ELSE pc' = "raised" /\ nf' = nf
    /\ UNCHANGED <<f, g, out, moves>>

NormalizeStep ==
    /\ pc = "normalize"
    /\ moves < MaxMoves
    /\ \E i \in LeftwardMoves(nf) : nf' = Move(nf, i)
    /\ moves' = moves + 1
    /\ UNCHANGED <<f, g, out, pc>>

Foliation ==
    /\ pc = "build"
    /\ pc' = "foliated"
    /\ out' = Outcome("foliation", f, NoDiagram, depth(f), TRUE, foliation(f))
    /\ UNCHANGED <<f, g, nf, moves>>

NormalizeReturn ==
    /\ pc = "normalize"
    /\ LeftwardMoves(nf) = {}
    /\ pc' = "done"
    /\ UNCHANGED <<f, g, out, nf, moves>>

NextNormal ==
    \/ AppendLayer
    \/ StartNormalForm
    \/ NormalizeStep
    \/ NormalizeReturn
    \/ Foliation

SpecNormal ==
    InitNormal /\ [][NextNormal]_vars /\ WF_vars(NormalizeStep \/ NormalizeReturn)

(***************************************************************************)
(* Layers as a process: layers are built by Layer(...) from arguments of   *)
(* any kind and bound to self or other (the registers f and g), and the    *)
(* layer operations are applied to them.  Diagram.boxes and                *)
(* Diagram.offsets unpack each layer as (left, box, right), which raises   *)
(* ValueError on a layer of any other length, and so does encode.          *)
(***************************************************************************)
LayerTypes == {<<>>, <<"x">>}

LayerBoxes ==
    { Box("a", <<>>, <<"x">>), BoxDagger(Box("a", <<>>, <<"x">>)),
      Box("k", <<"x">>, <<"x">>) }

MaxOtherArguments == 3

TyItem(t) == [Ty |-> t]

BoxItem(b) == [Box |-> b]

DiagramItem(d) == [Diagram |-> d]

GoodArguments ==
    {<<TyItem(l), BoxItem(b), TyItem(r)>> :
        l \in LayerTypes, b \in LayerBoxes, r \in LayerTypes}
      \cup {<<TyItem(l), BoxItem(b), TyItem(r), BoxItem(c), TyItem(t)>> :
              l \in LayerTypes, b \in LayerBoxes, r \in LayerTypes,
              c \in LayerBoxes, t \in LayerTypes}

OddArguments ==
    LET T0 == TyItem(<<>>)
        T1 == TyItem(<<"x">>)
        B0 == BoxItem(Box("k", <<"x">>, <<"x">>))
        D0 == DiagramItem(Id(<<"x">>))
    IN  { <<T0>>, <<T0, B0>>, <<T0, B0, T1, B0>>, <<T0, B0, T1, B0, T0, B0>>,
          <<T0, T1, T0>>, <<T0, D0, T0>>, <<T0, B0, B0>>, <<B0, B0, T0>>,
          <<T0, B0, T0, T1, T0>>, <<T0, B0, T0, B0, B0>> }
          \cup {<<T0, BoxItem(b), T0, D0, T1>> : b \in LayerBoxes}

Arguments == GoodArguments \cup OddArguments

LayerOutcome(op, a, b, r) ==
    [op |-> op, a |-> a, b |-> b, ok |-> r.ok, err |-> r.err, val |-> r.val]

LayerDiagram(l) == Diagram(<<l>>, LayerDom(l), LayerCod(l))

Unpackable(d) == \A i \in 1..Len(d.inside) : Len(d.inside[i]) = 3

EncodeResult(d) ==
    IF Unpackable(d) THEN Success(encode(d)) ELSE Failure("ValueError")

RoundTrip(d) ==
    LET e == EncodeResult(d)
    IN  IF ~e.ok THEN e
        ELSE LET r == decode(e.val.dom, e.val.boxes_and_offsets)
             IN  IF r.ok THEN Success(r.val)
                 ELSE Failure(Raise("AxiomError", "NOT_COMPOSABLE"))

InitLayer ==
    /\ f = LayerCast(Box("k", <<"x">>, <<"x">>))
    /\ g = LayerCast(Box("k", <<"x">>, <<"x">>))
    /\ out = Idle
    /\ pc = "layer"
    /\ nf = NoDiagram
    /\ moves = 0

NewSelf ==
    /\ pc = "layer"
    /\ \E items \in Arguments :
         LET r == LayerInit(items)
         IN  /\ out' = LayerOutcome("Layer", items, <<>>, r)
             /\ f' = IF r.ok THEN r.val ELSE f
    /\ UNCHANGED <<g, pc, nf, moves>>

NewOther ==
    /\ pc = "layer"
    /\ \E items \in {a \in Arguments : Len(a) <= MaxOtherArguments} :
         LET r == LayerInit(items)
         IN  /\ out' = LayerOutcome("Layer", items, <<>>, r)
             /\ g' = IF r.ok THEN r.val ELSE g
    /\ UNCHANGED <<f, pc, nf, moves>>

BoxesAndOffsets ==
    /\ pc = "layer"
    /\ out' = LayerOutcome("boxes_and_offsets", f, <<>>,
                           Success(LayerBoxesAndOffsets(f)))
    /\ UNCHANGED <<f, g, pc, nf, moves>>

Merge ==
    /\ pc = "layer"
    /\ out' = LayerOutcome("merge", f, g, merge(f, g))
    /\ UNCHANGED <<f, g, pc, nf, moves>>

EncodeDecode ==
    /\ pc = "layer"
    /\ out' = LayerOutcome("decode", LayerDiagram(f), <<>>,
                           RoundTrip(LayerDiagram(f)))
    /\ UNCHANGED <<f, g, pc, nf, moves>>

NextLayer == NewSelf \/ NewOther \/ BoxesAndOffsets \/ Merge \/ EncodeDecode

SpecLayer == InitLayer /\ [][NextLayer]_vars

(***************************************************************************)
(* Types of two flavours.  A Ty is a record [factory, inside]; a PRO is a  *)
(* record [factory, n] whose inside is n copies of the unnamed object      *)
(* Ob().  PRO is a subclass of Ty and each class is its own factory.       *)
(* assert_isinstance (discopy/utils.py, not among the sources) raises      *)
(* TypeError with messages.TYPE_ERROR, as section 6 describes.             *)
(***************************************************************************)
MaxTyLen == 2

MaxPRO == 2

MaxPow == 2

TyOf(inside) == [factory |-> "Ty", inside |-> inside]

PRO(n) == [factory |-> "PRO", n |-> n]

Inside(t) == IF t.factory = "PRO" THEN [i \in 1..t.n |-> ""] ELSE t.inside

IsInstance(t, cls) == t.factory = cls \/ (cls = "Ty" /\ t.factory = "PRO")

Compatible(self, others) ==
    \A i \in 1..Len(others) :
        /\ IsInstance(self, others[i].factory)
        /\ IsInstance(others[i], self.factory)

RECURSIVE InsideFrom(_, _)
InsideFrom(others, i) ==
    IF i > Len(others) THEN <<>>
    ELSE Inside(others[i]) \o InsideFrom(others, i + 1)

RECURSIVE SumOfN(_, _)
SumOfN(others, i) ==
    IF i > Len(others) THEN 0 ELSE others[i].n + SumOfN(others, i + 1)

TyTensorUnchecked(self, others) ==
    Success(TyOf(TyTensorAll(Inside(self), [i \in 1..Len(others) |-> Inside(others[i])])))

\* Ty.tensor
TyTensorChecked(self, others) ==
    IF ~Compatible(self, others) THEN Failure(Raise("TypeError", "TYPE_ERROR"))
    ELSE Success(TyOf(Inside(self) \o InsideFrom(others, 1)))

\* PRO.tensor
PROTensor(self, others) ==
    IF ~Compatible(self, others) THEN Failure(Raise("TypeError", "TYPE_ERROR"))
    ELSE Success(PRO(self.n + SumOfN(others, 1)))

TensorOfTypes(self, others) ==
    IF self.factory = "PRO" THEN PROTensor(self, others)
    ELSE TyTensorChecked(self, others)

\* Ty.__eq__ and PRO.__eq__; a == b asks b first when b's class is a proper
\* subclass of a's, and takes its answer since neither returns
\* NotImplemented.
TyEq(self, other) == IsInstance(other, "Ty") /\ Inside(self) = Inside(other)

PROEq(self, other) == IsInstance(other, "PRO") /\ self.n = other.n

TypesEqual(a, b) ==
    IF a.factory = "Ty" /\ b.factory = "PRO" THEN PROEq(b, a)
    ELSE IF a.factory = "PRO" THEN PROEq(a, b)
    ELSE TyEq(a, b)

\* __getitem__ with a slice lo:hi, __pow__ and __len__ of the two classes.
GetSlice(t, lo, hi) ==
    IF t.factory = "PRO" THEN PRO(Len(TySlice(Inside(t), lo, hi)))
    ELSE TyOf(TySlice(t.inside, lo, hi))

RECURSIVE Copies(_, _)
Copies(t, k) == IF k = 0 THEN <<>> ELSE <<t>> \o Copies(t, k - 1)

PowOfType(t, k) ==
    IF t.factory = "PRO" THEN Success(PRO(k * t.n))
    ELSE TyTensorChecked(TyOf(<<>>), Copies(t, k))

LenOfType(t) == IF t.factory = "PRO" THEN t.n ELSE Len(t.inside)

TyObjects == {"", "x"}

RECURSIVE TuplesUpTo(_)
TuplesUpTo(n) ==
    IF n = 0 THEN {<<>>}
    ELSE LET shorter == TuplesUpTo(n - 1)
         IN  shorter \cup {Append(t, o) : t \in shorter, o \in TyObjects}

TypeValues ==
    {TyOf(t) : t \in TuplesUpTo(MaxTyLen)} \cup {PRO(n) : n \in 0..MaxPRO}

TyOutcome(op, a, b, r) ==
    [op |-> op, a |-> a, b |-> b, ok |-> r.ok, err |-> r.err, val |-> r.val]

InitTy ==
    /\ f = TyOf(<<>>)
    /\ g = TyOf(<<>>)
    /\ out = Idle
    /\ pc = "ty"
    /\ nf = NoDiagram
    /\ moves = 0

BindSelf ==
    /\ pc = "ty"
    /\ \E t \in TypeValues : f' = t
    /\ out' = Idle
    /\ UNCHANGED <<g, pc, nf, moves>>

BindOther ==
    /\ pc = "ty"
    /\ \E t \in TypeValues : g' = t
    /\ out' = Idle
    /\ UNCHANGED <<f, pc, nf, moves>>

TensorTypes ==
    /\ pc = "ty"
    /\ \E others \in {<<g>>, <<g, f>>, <<g, g>>} :
         out' = TyOutcome("tensor", f, others, TensorOfTypes(f, others))
    /\ UNCHANGED <<f, g, pc, nf, moves>>

CompareTypes ==
    /\ pc = "ty"
    /\ out' = TyOutcome("eq", f, g, Success(TypesEqual(f, g)))
    /\ UNCHANGED <<f, g, pc, nf, moves>>

SliceType ==
    /\ pc = "ty"
    /\ \E lo \in 0..MaxTyLen, hi \in 0..(MaxTyLen + 1) :
         out' = TyOutcome("slice", f, <<lo, hi>>, Success(GetSlice(f, lo, hi)))
    /\ UNCHANGED <<f, g, pc, nf, moves>>

PowType ==
    /\ pc = "ty"
    /\ \E k \in 0..MaxPow : out' = TyOutcome("pow", f, k, PowOfType(f, k))
    /\ UNCHANGED <<f, g, pc, nf, moves>>

LenType ==
    /\ pc = "ty"
    /\ out' = TyOutcome("len", f, <<>>, Success(LenOfType(f)))
    /\ UNCHANGED <<f, g, pc, nf, moves>>

NextTy ==
    \/ BindSelf \/ BindOther \/ TensorTypes \/ CompareTypes
    \/ SliceType \/ PowType \/ LenType

SpecTy == InitTy /\ [][NextTy]_vars

(***************************************************************************)
(* Formal sums.  A sum is a record [terms, dom, cod].  cat.Sum.__init__    *)
(* (discopy/cat.py, not among the sources) takes the dom and cod of a sum  *)
(* given without them from its first term (section 3).  Sum.tensor pairs   *)
(* every term of self with every term of other, self's term in the outer   *)
(* loop; Diagram.tensor turns self into a one-term sum when other is a     *)
(* sum.                                                                    *)
(***************************************************************************)
MaxTerms == 2

Sum(terms, dom, cod) == [terms |-> terms, dom |-> dom, cod |-> cod]

SumOfTerms(terms) == Sum(terms, terms[1].dom, terms[1].cod)

IsSum(v) == "terms" \in DOMAIN v

RECURSIVE TermWithEach(_, _, _)
TermWithEach(term, others, j) ==
    IF j > Len(others) THEN <<>>
    ELSE <<tensor(term, others[j])>> \o TermWithEach(term, others, j + 1)

RECURSIVE EachOtherWithTerms(_, _, _)
EachOtherWithTerms(terms, others, i) ==
    IF i > Len(others) THEN <<>>
    ELSE [k \in 1..Len(terms) |-> tensor(terms[k], others[i])]
           \o EachOtherWithTerms(terms, others, i + 1)

RECURSIVE EachTermWithOthers(_, _, _)
EachTermWithOthers(terms, others, i) ==
    IF i > Len(terms) THEN <<>>
    ELSE TermWithEach(terms[i], others, 1) \o EachTermWithOthers(terms, others, i + 1)

SumTensor(self, other) ==
    LET o == IF IsSum(other) THEN other ELSE SumOfTerms(<<other>>)
    IN  Sum(EachTermWithOthers(self.terms, o.terms, 1),
            TyTensor(self.dom, o.dom), TyTensor(self.cod, o.cod))

DiagramTensor(self, other) ==
    IF IsSum(other) THEN SumTensor(SumOfTerms(<<self>>), other)
    ELSE tensor(self, other)

TensorOfAny(self, other) ==
    IF IsSum(self) THEN SumTensor(self, other) ELSE DiagramTensor(self, other)

LeftTerms ==
    { BoxDiagram(Box("f0", <<"x">>, <<"y">>)),
      BoxDiagram(Box("f1", <<"x">>, <<"y">>)),
      then(BoxDiagram(Box("k", <<"x">>, <<"x">>)),
           BoxDiagram(Box("f0", <<"x">>, <<"y">>))) }

RightTerms ==
    { BoxDiagram(Box("a", <<>>, <<"x">>)),
      then(BoxDiagram(Box("a", <<>>, <<"x">>)),
           BoxDiagram(Box("k", <<"x">>, <<"x">>))) }

RECURSIVE SumsOver(_, _, _, _)
SumsOver(pool, dom, cod, n) ==
    IF n = 0 THEN {Sum(<<>>, dom, cod)}
    ELSE LET shorter == SumsOver(pool, dom, cod, n - 1)
         IN  shorter \cup {Sum(Append(s.terms, d), dom, cod) : s \in shorter, d \in pool}

InitSum ==
    /\ f = Sum(<<>>, <<"x">>, <<"y">>)
    /\ g = Sum(<<>>, <<>>, <<"x">>)
    /\ out = Idle
    /\ pc = "sum"
    /\ nf = NoDiagram
    /\ moves = 0

NewLeftSum ==
    /\ pc = "sum"
    /\ f' \in SumsOver(LeftTerms, <<"x">>, <<"y">>, MaxTerms)
    /\ out' = Idle
    /\ UNCHANGED <<g, pc, nf, moves>>

NewRightSum ==
    /\ pc = "sum"
    /\ g' \in SumsOver(RightTerms, <<>>, <<"x">>, MaxTerms)
    /\ out' = Idle
    /\ UNCHANGED <<f, pc, nf, moves>>

TensorSums ==
    /\ pc = "sum"
    /\ \E swap \in BOOLEAN :
         LET a == IF swap THEN g ELSE f
             b == IF swap THEN f ELSE g
         IN  out' = TyOutcome("tensor", a, b, Success(TensorOfAny(a, b)))
    /\ UNCHANGED <<f, g, pc, nf, moves>>

TensorSumDiagram ==
    /\ pc = "sum"
    /\ \E d \in RightTerms :
         out' = TyOutcome("tensor", f, d, Success(TensorOfAny(f, d)))
    /\ UNCHANGED <<f, g, pc, nf, moves>>

TensorDiagramSum ==
    /\ pc = "sum"
    /\ \E d \in LeftTerms :
         out' = TyOutcome("tensor", d, g, Success(TensorOfAny(d, g)))
    /\ UNCHANGED <<f, g, pc, nf, moves>>

NextSum ==
    \/ NewLeftSum \/ NewRightSum \/ TensorSums
    \/ TensorSumDiagram \/ TensorDiagramSum

SpecSum == InitSum /\ [][NextSum]_vars

(***************************************************************************)
(* The backend context manager of discopy/matrix.py.  _stack and _cache    *)
(* are the default arguments of backend, made once when it is defined and  *)
(* shared by every call and every thread.  Here f is _stack, g is _cache   *)
(* (a function from the names cached to the backend objects), moves        *)
(* counts the backend objects constructed, and for each thread pc is its   *)
(* position in backend, out its call in progress or last finished, and nf  *)
(* the contexts it is inside of.  The steps of a call are the statements   *)
(* of backend: resolve the name, append it, look it up in the cache,       *)
(* construct the backend, yield it, and pop in the finally clause, which   *)
(* runs when the body returns, when it raises and when the lookup in       *)
(* BACKENDS or the constructor raises.  get_backend enters backend() and   *)
(* returns from inside it.  matrix.py names contextmanager and config      *)
(* without importing them; they are taken to be contextlib.contextmanager  *)
(* and discopy/config.py, whose DEFAULT_BACKEND is 'numpy'.                *)
(***************************************************************************)
MaxDepth == 2

BACKENDS ==
    [n \in {"np", "numpy", "jax", "jax.numpy", "pytorch", "torch", "tensorflow"} |->
        CASE n \in {"np", "numpy"} -> "NumPy"
          [] n \in {"jax", "jax.numpy"} -> "JAX"
          [] n \in {"pytorch", "torch"} -> "PyTorch"
          [] OTHER -> "TensorFlow"]

DEFAULT_BACKEND == "numpy"

\* The backends whose module is not installed: their constructor raises.
Unavailable == {"PyTorch"}

MaxThreadDepth == 1

\* The names a thread passes to backend, "" standing for no name, and the
\* depth to which it nests contexts: one thread alone tries every kind of
\* name, two threads together one name each.
NamesOf(t) ==
    IF DOMAIN pc = {1} THEN {"", "np", "jax", "torch", "bogus"}
    ELSE IF t = 1 THEN {"jax"} ELSE {"", "np"}

DepthOf(t) == IF DOMAIN pc = {1} THEN MaxDepth ELSE MaxThreadDepth

NoObject == [class |-> "", id |-> 0]

NoCall ==
    [op |-> "none", arg |-> "", name |-> "", val |-> NoObject, err |-> "",
     popped |-> ""]

InitOf(threads) ==
    /\ f = <<DEFAULT_BACKEND>>
    /\ g = << >>
    /\ moves = 0
    /\ pc = [t \in threads |-> "body"]
    /\ out = [t \in threads |-> NoCall]
    /\ nf = [t \in threads |-> <<>>]

StartWith(t) ==
    /\ pc[t] = "body"
    /\ Len(nf[t]) < DepthOf(t)
    /\ \E arg \in NamesOf(t) :
         out' = [out EXCEPT ![t] = [NoCall EXCEPT !.op = "with", !.arg = arg]]
    /\ pc' = [pc EXCEPT ![t] = "resolve"]
    /\ UNCHANGED <<f, g, nf, moves>>

StartGet(t) ==
    /\ pc[t] = "body"
    /\ out' = [out EXCEPT ![t] = [NoCall EXCEPT !.op = "get"]]
    /\ pc' = [pc EXCEPT ![t] = "resolve"]
    /\ UNCHANGED <<f, g, nf, moves>>

Resolve(t) ==
    /\ pc[t] = "resolve"
    /\ out' = [out EXCEPT ![t].name =
                  IF out[t].arg # "" THEN out[t].arg ELSE f[Len(f)]]
    /\ pc' = [pc EXCEPT ![t] = "append"]
    /\ UNCHANGED <<f, g, nf, moves>>

AppendName(t) ==
    /\ pc[t] = "append"
    /\ f' = Append(f, out[t].name)
    /\ pc' = [pc EXCEPT ![t] = "lookup"]
    /\ UNCHANGED <<g, out, nf, moves>>

LookupAlwaysMisses(t) ==
    /\ pc[t] = "lookup"
    /\ pc' = [pc EXCEPT ![t] = "construct"]
    /\ UNCHANGED <<f, g, out, nf, moves>>

Lookup(t) ==
    /\ pc[t] = "lookup"
    /\ pc' = [pc EXCEPT ![t] =
                 IF out[t].name \in DOMAIN g THEN "yield" ELSE "construct"]
    /\ UNCHANGED <<f, g, out, nf, moves>>

Construct(t) ==
    /\ pc[t] = "construct"
    /\ LET name == out[t].name
       IN  IF name \notin DOMAIN BACKENDS
           THEN /\ out' = [out EXCEPT ![t].err = "KeyError"]
                /\ pc' = [pc EXCEPT ![t] = "pop"]
                /\ UNCHANGED <<g, moves>>
           ELSE IF BACKENDS[name] \in Unavailable
           THEN /\ out' = [out EXCEPT ![t].err = "ImportError"]
                /\ pc' = [pc EXCEPT ![t] = "pop"]
                /\ UNCHANGED <<g, moves>>
           ELSE /\ moves' = moves + 1
                /\ g' = [n \in DOMAIN g \cup {name} |->
                            IF n = name
                            THEN [class |-> BACKENDS[name], id |-> moves + 1]
                            ELSE g[n]]
                /\ pc' = [pc EXCEPT ![t] = "yield"]
                /\ out' = out
    /\ UNCHANGED <<f, nf>>

Yield(t) ==
    /\ pc[t] = "yield"
    /\ LET val == g[out[t].name]
       IN  IF out[t].op = "with"
           THEN /\ nf' = [nf EXCEPT ![t] =
                            Append(nf[t], [name |-> out[t].name, val |-> val])]
                /\ out' = [out EXCEPT ![t].op = "entered", ![t].val = val]
                /\ pc' = [pc EXCEPT ![t] = "body"]
           ELSE /\ out' = [out EXCEPT ![t].val = val]
                /\ pc' = [pc EXCEPT ![t] = "pop"]
                /\ nf' = nf
    /\ UNCHANGED <<f, g, moves>>

LeaveBody(t) ==
    /\ pc[t] = "body"
    /\ nf[t] # <<>>
    /\ \E raised \in BOOLEAN :
         LET top == nf[t][Len(nf[t])]
         IN  out' = [out EXCEPT ![t] =
                        [NoCall EXCEPT !.op = "exit", !.name = top.name,
                                       !.val = top.val,
                                       !.err = IF raised THEN "BodyError" ELSE ""]]
    /\ nf' = [nf EXCEPT ![t] = SubSeq(nf[t], 1, Len(nf[t]) - 1)]
    /\ pc' = [pc EXCEPT ![t] = "pop"]
    /\ UNCHANGED <<f, g, moves>>

Finished(call) ==
    IF call.op = "exit" THEN "left"
    ELSE IF call.err # "" THEN "failed"
    ELSE "got"

PopUnlessRaised(t) ==
    /\ pc[t] = "pop"
    /\ f' = IF out[t].err # "" THEN f ELSE SubSeq(f, 1, Len(f) - 1)
    /\ out' = [out EXCEPT ![t].op = Finished(out[t]), ![t].popped = f[Len(f)]]
    /\ pc' = [pc EXCEPT ![t] = "body"]
    /\ UNCHANGED <<g, nf, moves>>

Pop(t) ==
    /\ pc[t] = "pop"
    /\ f' = SubSeq(f, 1, Len(f) - 1)
    /\ out' = [out EXCEPT ![t].op = Finished(out[t]), ![t].popped = f[Len(f)]]
    /\ pc' = [pc EXCEPT ![t] = "body"]
    /\ UNCHANGED <<g, nf, moves>>

StepOf(t) ==
    \/ StartWith(t) \/ StartGet(t) \/ Resolve(t) \/ AppendName(t)
    \/ Lookup(t) \/ Construct(t) \/ Yield(t) \/ LeaveBody(t) \/ Pop(t)

\* One thread.
InitBackend == InitOf({1})

NextBackend == StepOf(1)

SpecBackend == InitBackend /\ [][NextBackend]_vars

\* Two threads, their steps interleaved.
Threads == {1, 2}

InitThreads == InitOf(Threads)

NextThreads == \E t \in Threads : StepOf(t)

SpecThreads == InitThreads /\ [][NextThreads]_vars

(***************************************************************************)
(* Indices and bitstrings of quantum/circuit.py.  f is the index, g the    *)
(* length, out the last call, nf the bitstrings the loop of get_counts has  *)
(* gone through for the length g.  A string is a sequence of characters;       *)
(* format(i, 'b') gives the binary digits of i, most significant first,    *)
(* '0' for zero, and the fill '0' with width length pads it on the left    *)
(* without ever cutting it.                                                *)
(***************************************************************************)
MaxBits == 4

MaxIndex == 2 ^ MaxBits + 1

CharOfDigit(v) == IF v = 0 THEN "0" ELSE "1"

IntOfChar(c) == IF c = "0" THEN 0 ELSE 1

RECURSIVE BinaryDigits(_)
BinaryDigits(i) ==
    IF i < 2 THEN <<CharOfDigit(i)>>
    ELSE BinaryDigits(i \div 2) \o <<CharOfDigit(i % 2)>>

ZeroFill(n) == [k \in 1..n |-> "0"]

Format(i, length) ==
    LET digits == BinaryDigits(i)
    IN  IF Len(digits) >= length THEN digits
        ELSE ZeroFill(length - Len(digits)) \o digits

index2bitstring(i, length) ==
    IF i >= 2 ^ length THEN Failure("ValueError")
    ELSE IF i = 0 /\ length = 0 THEN Success(<<>>)
    ELSE LET string == Format(i, length)
         IN  Success([k \in 1..Len(string) |-> IntOfChar(string[k])])

Reversed(bitstring) ==
    [k \in 1..Len(bitstring) |-> bitstring[Len(bitstring) + 1 - k]]

RECURSIVE SumOfBits(_, _)
SumOfBits(bits, k) ==
    IF k > Len(bits) THEN 0
    ELSE bits[k] * 2 ^ (k - 1) + SumOfBits(bits, k + 1)

bitstring2indexUnreversed(bitstring) == SumOfBits(bitstring, 1)

bitstring2index(bitstring) == SumOfBits(Reversed(bitstring), 1)

NoBits ==
    [op |-> "idle", i |-> 0, length |-> 0, ok |-> TRUE, err |-> "",
     bits |-> <<>>, index |-> 0]

BitsOutcome(op, i, length, r, index) ==
    [op |-> op, i |-> i, length |-> length, ok |-> r.ok, err |-> r.err,
     bits |-> r.val, index |-> index]

InitBits ==
    /\ f = 0
    /\ g = 0
    /\ out = NoBits
    /\ pc = "bits"
    /\ nf = <<>>
    /\ moves = 0

ChooseIndex ==
    /\ pc = "bits"
    /\ \E i \in 0..MaxIndex, length \in 0..MaxBits :
          /\ f' = i
          /\ g' = length
    /\ out' = NoBits
    /\ nf' = <<>>
    /\ UNCHANGED <<pc, moves>>

Index2Bitstring ==
    /\ pc = "bits"
    /\ out.op = "idle"
    /\ out' = BitsOutcome("index2bitstring", f, g, index2bitstring(f, g), 0)
    /\ UNCHANGED <<f, g, pc, nf, moves>>

Bitstring2Index ==
    /\ pc = "bits"
    /\ out.op = "index2bitstring"
    /\ out.ok
    /\ out' = [out EXCEPT !.op = "bitstring2index",
                          !.index = bitstring2index(out.bits)]
    /\ UNCHANGED <<f, g, pc, nf, moves>>

GetCountsNext ==
    /\ pc = "bits"
    /\ Len(nf) < 2 ^ g
    /\ nf' = Append(nf, index2bitstring(Len(nf), g).val)
    /\ UNCHANGED <<f, g, out, pc, moves>>

NextBits == ChooseIndex \/ Index2Bitstring \/ Bitstring2Index \/ GetCountsNext

SpecBits == InitBits /\ [][NextBits]_vars

(***************************************************************************)
(* Properties.                                                             *)
(***************************************************************************)
Diagrams == {f, g, out.a, out.b} \cup (IF out.ok THEN {out.val} ELSE {})

Last(s) == s[Len(s)]

LinesUp(d) ==
    IF Len(d.inside) = 0 THEN d.dom = d.cod
    ELSE /\ LayerDom(d.inside[1]) = d.dom
         /\ \A i \in 1..(Len(d.inside) - 1) :
               LayerCod(d.inside[i]) = LayerDom(d.inside[i + 1])
         /\ LayerCod(Last(d.inside)) = d.cod

IsBoxDiagram(d) ==
    /\ Len(d.inside) = 1
    /\ Len(d.inside[1]) = 3
    /\ d.inside[1][1] = <<>>
    /\ d.inside[1][3] = <<>>

HasDagger(d) == \E i \in 1..Len(d.inside) : d.inside[i][2].is_dagger

\* C1: every diagram built from boxes and identities by then, tensor, dagger
\* and successful interchange moves has layers that line up: the first
\* layer's domain is the diagram's dom, each layer's codomain is the next
\* layer's domain, the last layer's codomain is the diagram's cod, and a
\* diagram with no layer has dom = cod.
C1_LayersLineUp == \A d \in Diagrams : LinesUp(d)

C1_Witness ==
    /\ out.op = "interchange" /\ out.ok
    /\ Len(out.val.inside) = 2
    /\ HasDagger(out.val)
    /\ out.val.dom # out.val.cod

\* C2: f.then(g) succeeds iff f.cod = g.dom; on success the result has dom
\* f.dom, cod g.cod and f's layers followed by g's layers, unchanged;
\* otherwise it fails and produces no diagram.
C2_ThenContract ==
    out.op = "then" =>
        /\ out.ok <=> (out.a.cod = out.b.dom)
        /\ out.ok =>
              /\ out.val.dom = out.a.dom
              /\ out.val.cod = out.b.cod
              /\ Len(out.val.inside) = Len(out.a.inside) + Len(out.b.inside)
              /\ \A i \in 1..Len(out.a.inside) : out.val.inside[i] = out.a.inside[i]
              /\ \A j \in 1..Len(out.b.inside) :
                    out.val.inside[Len(out.a.inside) + j] = out.b.inside[j]
        /\ ~out.ok => out.val = NoDiagram

C2_Witness ==
    /\ out.op = "then" /\ out.ok
    /\ Len(out.a.inside) >= 1 /\ Len(out.b.inside) >= 1
    /\ out.a.inside # out.b.inside

C2_WitnessFails ==
    /\ out.op = "then" /\ ~out.ok
    /\ Len(out.a.inside) >= 1 /\ Len(out.b.inside) >= 1

\* C3: f.tensor(g) has dom f.dom @ g.dom and cod f.cod @ g.cod; its layers
\* are the layers of f, each with g.dom appended to its rightmost type,
\* followed by the layers of g, each with f.cod prepended to its leftmost
\* type; that is, f @ g = (f @ id(g.dom)) >> (id(f.cod) @ g).
C3_TensorLayers ==
    out.op = "tensor" =>
        LET a == out.a
            b == out.b
            n == Len(a.inside)
        IN  /\ out.ok
            /\ out.val.dom = a.dom \o b.dom
            /\ out.val.cod = a.cod \o b.cod
            /\ Len(out.val.inside) = n + Len(b.inside)
            /\ \A i \in 1..n :
                  LET l == a.inside[i]
                      m == out.val.inside[i]
                  IN  /\ Len(m) = Len(l)
                      /\ \A k \in 1..(Len(l) - 1) : m[k] = l[k]
                      /\ Last(m) = Last(l) \o b.dom
            /\ \A j \in 1..Len(b.inside) :
                  LET l == b.inside[j]
                      m == out.val.inside[n + j]
                  IN  /\ Len(m) = Len(l)
                      /\ \A k \in 2..Len(l) : m[k] = l[k]
                      /\ m[1] = a.cod \o l[1]
            /\ out.val = then(tensor(a, Id(b.dom)), tensor(Id(a.cod), b))

C3_Witness ==
    /\ out.op = "tensor"
    /\ Len(out.a.inside) >= 1 /\ Len(out.b.inside) >= 1
    /\ out.a.cod # <<>> /\ out.b.dom # <<>>
    /\ out.a.cod # out.a.dom

(***************************************************************************)
(* The two sides of the interchange law for boxes f : x -> y, g : z -> w.  *)
(***************************************************************************)
FirstThenSecond(a, b) == then(tensor(a, Id(b.dom)), tensor(Id(a.cod), b))

SecondThenFirst(a, b) == then(tensor(Id(a.dom), b), tensor(a, Id(b.cod)))

IsScalar(d) == d.dom = <<>> /\ d.cod = <<>>

\* C4 as claimed: for boxes f and g, (f @ id(z)) >> (id(y) @ g),
\* (id(x) @ g) >> (f @ id(w)) and f @ g are equal diagrams.
C4_InterchangeLawAsClaimed ==
    (out.op = "tensor" /\ IsBoxDiagram(out.a) /\ IsBoxDiagram(out.b)) =>
        /\ FirstThenSecond(out.a, out.b) = SecondThenFirst(out.a, out.b)
        /\ SecondThenFirst(out.a, out.b) = out.val

\* C4 as amended: for boxes f and g, (f @ id(z)) >> (id(y) @ g) = f @ g;
\* (id(x) @ g) >> (f @ id(w)) has the same dom and cod and the same two
\* boxes in the opposite order of layers, with g at offset len(x) and f at
\* offset 0, and equals f @ g only when f and g are the same box with empty
\* dom and cod.
C4_InterchangeLawUpToInterchanger ==
    (out.op = "tensor" /\ IsBoxDiagram(out.a) /\ IsBoxDiagram(out.b)) =>
        LET lhs == FirstThenSecond(out.a, out.b)
            rhs == SecondThenFirst(out.a, out.b)
        IN  /\ lhs = out.val
            /\ rhs.dom = out.val.dom /\ rhs.cod = out.val.cod
            /\ Len(rhs.inside) = 2 /\ Len(out.val.inside) = 2
            /\ rhs.inside[1][2] = out.val.inside[2][2]
            /\ rhs.inside[2][2] = out.val.inside[1][2]
            /\ Len(rhs.inside[1][1]) = Len(out.a.dom)
            /\ Len(rhs.inside[2][1]) = 0
            /\ LinesUp(rhs)
            /\ (rhs = out.val) <=> (out.a = out.b /\ IsScalar(out.a))

C4_Witness ==
    /\ out.op = "tensor" /\ IsBoxDiagram(out.a) /\ IsBoxDiagram(out.b)
    /\ out.a.dom # <<>> /\ out.a.cod # <<>>
    /\ out.b.dom # <<>> /\ out.b.cod # <<>>
    /\ out.a # out.b

(***************************************************************************)
(* f0 @ f1 and (id(x) @ f1) >> (f0 @ id(w)) recognised in a two-layer      *)
(* diagram, the boxes read back from its layers.                           *)
(***************************************************************************)
IsTensorOfBoxes(d) ==
    /\ Len(d.inside) = 2
    /\ d = tensor(BoxDiagram(d.inside[1][2]), BoxDiagram(d.inside[2][2]))

IsSecondThenFirst(d) ==
    /\ Len(d.inside) = 2
    /\ d = SecondThenFirst(BoxDiagram(d.inside[2][2]), BoxDiagram(d.inside[1][2]))

Outcomes(d, i) == {r.val : r \in {q \in interchange(d, i) : q.ok}}

\* C5 as claimed: for boxes f0 : x -> y and f1 : z -> w,
\* (f0 @ f1).interchange(0, 1) is (id(x) @ f1) >> (f0 @ id(w)), applying
\* interchange(0, 1) to that gives back f0 @ f1, and dom and cod are kept.
C5_InterchangeUndoneAsClaimed ==
    (out.op = "interchange" /\ out.i = 0) =>
        /\ IsTensorOfBoxes(out.a) =>
              /\ out.ok
              /\ out.val = SecondThenFirst(BoxDiagram(out.a.inside[1][2]),
                                           BoxDiagram(out.a.inside[2][2]))
        /\ IsSecondThenFirst(out.a) =>
              /\ out.ok
              /\ out.val = tensor(BoxDiagram(out.a.inside[2][2]),
                                  BoxDiagram(out.a.inside[1][2]))
        /\ out.ok => (out.val.dom = out.a.dom /\ out.val.cod = out.a.cod)

\* C5 as amended: for boxes f0 : x -> y and f1 : z -> w,
\* (f0 @ f1).interchange(0, 1) succeeds, and is (id(x) @ f1) >> (f0 @ id(w))
\* when y or z is not empty; interchange(0, 1) of that diagram succeeds, and
\* is f0 @ f1 when x or w is not empty.  Every successful interchange keeps
\* dom and cod, and the same move applied to its result can give back the
\* diagram it started from.
C5_InterchangeUndone ==
    (out.op = "interchange" /\ out.i = 0) =>
        /\ IsTensorOfBoxes(out.a) =>
              LET f0 == BoxDiagram(out.a.inside[1][2])
                  f1 == BoxDiagram(out.a.inside[2][2])
              IN  /\ out.ok
                  /\ (f0.cod # <<>> \/ f1.dom # <<>>) =>
                        out.val = SecondThenFirst(f0, f1)
        /\ IsSecondThenFirst(out.a) =>
              LET f0 == BoxDiagram(out.a.inside[2][2])
                  f1 == BoxDiagram(out.a.inside[1][2])
              IN  /\ out.ok
                  /\ (f0.dom # <<>> \/ f1.cod # <<>>) => out.val = tensor(f0, f1)
        /\ out.ok =>
              /\ out.val.dom = out.a.dom /\ out.val.cod = out.a.cod
              /\ out.a \in Outcomes(out.val, 0)

C5_Witness ==
    /\ out.op = "interchange" /\ out.i = 0 /\ out.ok
    /\ IsSecondThenFirst(out.a)
    /\ out.a.inside[1][2].dom # <<>> /\ out.a.inside[1][2].cod # <<>>
    /\ out.a.inside[2][2].dom # <<>> /\ out.a.inside[2][2].cod # <<>>
    /\ out.val # out.a

(***************************************************************************)
(* The two layers of a diagram at i and i + 1 (counted from 0) share no    *)
(* wire: read from the layers themselves, o the length of the type left of *)
(* the box, w the box's width on the wires between the two layers.         *)
(***************************************************************************)
NoSharedWires(d, i) ==
    LET l0 == d.inside[i + 1]
        l1 == d.inside[i + 2]
        o0 == Len(l0[1])
        w0 == Len(l0[2].cod)
        o1 == Len(l1[1])
        w1 == Len(l1[2].dom)
    IN  o0 + w0 <= o1 \/ o1 + w1 <= o0

\* C6: interchange(i, i + 1) succeeds exactly when the two layers share no
\* wires, o_i + w_i <= o_(i+1) or o_(i+1) + w_(i+1) <= o_i; otherwise it
\* fails, produces no diagram and leaves the original diagram as it was.
\* On success the two boxes have changed places and the layers line up.
C6_InterchangeGuard ==
    out.op = "interchange" =>
        /\ out.ok <=> NoSharedWires(out.a, out.i)
        /\ f = out.a
        /\ ~out.ok => out.val = NoDiagram
        /\ out.ok =>
              /\ Len(out.val.inside) = Len(out.a.inside)
              /\ out.val.inside[out.i + 1][2] = out.a.inside[out.i + 2][2]
              /\ out.val.inside[out.i + 2][2] = out.a.inside[out.i + 1][2]
              /\ LinesUp(out.val)

C6_Witness ==
    /\ out.op = "interchange" /\ ~out.ok
    /\ Len(out.a.inside[out.i + 1][1]) # Len(out.a.inside[out.i + 2][1])
    /\ Len(out.a.inside[out.i + 1][3]) # Len(out.a.inside[out.i + 2][3])

C6_WitnessSucceeds ==
    /\ out.op = "interchange" /\ out.ok
    /\ Len(out.a.inside[out.i + 1][2].cod) # Len(out.a.inside[out.i + 1][2].dom)
    /\ Len(out.a.inside[out.i + 1][1]) > 0

IsScalarBox(d) == IsBoxDiagram(d) /\ IsScalar(d)

\* C10: the Eckmann-Hilton argument.  For scalar boxes s0, s1 : () -> (),
\* s0 @ s1 = s0 >> s1, and interchange(0, 1) of s1 @ s0 succeeds with the
\* one outcome s0 >> s1 = s0 @ s1 (and the same with s0 and s1 exchanged);
\* two boxes of zero width at the same offset always commute.
C10_EckmannHilton ==
    /\ (out.op = "tensor" /\ IsScalarBox(out.a) /\ IsScalarBox(out.b)) =>
          out.val = then(out.a, out.b)
    /\ (out.op = "interchange" /\ IsTensorOfBoxes(out.a)
            /\ IsScalar(out.a.inside[1][2]) /\ IsScalar(out.a.inside[2][2])) =>
          LET s1 == BoxDiagram(out.a.inside[1][2])
              s0 == BoxDiagram(out.a.inside[2][2])
          IN  /\ out.ok
              /\ out.val = then(s0, s1)
              /\ out.val = tensor(s0, s1)
              /\ Outcomes(out.a, 0) = {then(s0, s1)}
    /\ (out.op = "interchange"
            /\ IsScalar(out.a.inside[out.i + 1][2])
            /\ IsScalar(out.a.inside[out.i + 2][2])
            /\ Len(out.a.inside[out.i + 1][1]) = Len(out.a.inside[out.i + 2][1])) =>
          out.ok

C10_Witness ==
    /\ out.op = "interchange" /\ out.ok
    /\ IsTensorOfBoxes(out.a)
    /\ IsScalar(out.a.inside[1][2]) /\ IsScalar(out.a.inside[2][2])
    /\ out.a.inside[1][2].name = "s1" /\ out.a.inside[2][2].name = "s0"
    /\ out.val # out.a

(***************************************************************************)
(* The diagrams reached from d by interchange moves, in any direction.     *)
(***************************************************************************)
Neighbours(d) == UNION {Outcomes(d, i) : i \in 0..(Len(d.inside) - 2)}

RECURSIVE EquivalentTo(_, _)
EquivalentTo(ds, n) ==
    LET more == ds \cup UNION {Neighbours(d) : d \in ds}
    IN  IF more = ds \/ n = 0 THEN ds ELSE EquivalentTo(more, n - 1)

\* C7: normal_form terminates: from any diagram, commuting boxes leftward,
\* in whatever order, reaches after finitely many moves (at most the square
\* of the number of layers) a diagram with no leftward move left, unless
\* the call raised NotConnected before the first move.
C7_NormalFormTerminates ==
    /\ pc = "normalize" => moves <= Len(f.inside) * Len(f.inside)
    /\ pc = "done" => LeftwardMoves(nf) = {}
    /\ pc = "raised" => (moves = 0 /\ ~BoundaryConnected(f))

C7_Witness ==
    /\ pc = "done"
    /\ Len(f.inside) = MaxNormalLayers
    /\ moves >= 3

\* C8: interchange-equivalent diagrams have equal normal forms, whatever
\* the order of the moves: when normal_form returns, its result is the
\* normal form of every diagram interchange-equivalent to its argument.
C8_NormalFormConfluent ==
    pc = "done" =>
        /\ normal_form(f) = [ok |-> TRUE, val |-> nf]
        /\ \A d \in EquivalentTo({f}, MaxMoves) :
              normal_form(d) = [ok |-> TRUE, val |-> nf]

C8_Witness ==
    /\ pc = "done"
    /\ Cardinality(EquivalentTo({f}, MaxMoves)) >= 3
    /\ nf # f

\* C9: normal_form is idempotent: its result admits no further leftward
\* move and is its own normal form.
C9_NormalFormIdempotent ==
    pc = "done" =>
        /\ LeftwardMoves(nf) = {}
        /\ normal_form(nf) = [ok |-> TRUE, val |-> nf]
        /\ normal_form(f).ok /\ normal_form(normal_form(f).val) = normal_form(f)

C9_Witness ==
    /\ pc = "done"
    /\ nf # f
    /\ Len(nf.inside) >= 3

(***************************************************************************)
(* Layers with several boxes.  The width of everything strictly left of    *)
(* the k-th box of a layer, on its domain side and on its codomain side,   *)
(* read from the layer itself.                                             *)
(***************************************************************************)
DomOffset(l, k) == Len(LayerDom(SubSeq(l, 1, 2 * k - 1)))

CodOffset(l, k) == Len(LayerCod(SubSeq(l, 1, 2 * k - 1)))

WidthsLeft(l) ==
    [k \in 1..NumBoxes(l) |-> [box |-> l[2 * k], offset |-> DomOffset(l, k)]]

ScanFindsConflict(self, other) ==
    LET all == WidthsLeft(self) \o WidthsLeft(other)
        s == SortedByOffset(all, Len(all))
    IN  \E k \in 1..(Len(s) - 1) :
           s[k].offset + Len(s[k].box.dom) > s[k + 1].offset

\* C12 as claimed: merge of two composable layers fails with a
\* merge-conflict error (AxiomError) exactly when, scanning the boxes of
\* both layers sorted by offset, the running right edge (previous offset +
\* previous box's domain length) exceeds the next box's offset; a failure
\* produces no layer.
C12_MergeConflictAsClaimed ==
    (out.op = "merge" /\ LayerCod(out.a) = LayerDom(out.b)) =>
        /\ out.ok <=> ~ScanFindsConflict(out.a, out.b)
        /\ ~out.ok => (out.err = "AxiomError" /\ out.val = <<>>)

(***************************************************************************)
(* No box of the upper layer shares a wire with a box of the lower layer,  *)
(* on the wires between the two layers.                                    *)
(***************************************************************************)
NoSeamConflict(self, other) ==
    \A j \in 1..NumBoxes(self), k \in 1..NumBoxes(other) :
        \/ CodOffset(self, j) + Len(self[2 * j].cod) <= DomOffset(other, k)
        \/ DomOffset(other, k) + Len(other[2 * k].dom) <= CodOffset(self, j)

\* C13 as claimed: for composable layers A, B whose boxes do not conflict,
\* A.merge(B) is one layer with domain A.dom and codomain B.cod holding
\* exactly the boxes of A and of B, each at its own offset.
C13_MergeUnionAsClaimed ==
    (out.op = "merge" /\ LayerCod(out.a) = LayerDom(out.b)
        /\ NoSeamConflict(out.a, out.b)) =>
        /\ out.ok
        /\ LayerDom(out.val) = LayerDom(out.a)
        /\ LayerCod(out.val) = LayerCod(out.b)
        /\ NumBoxes(out.val) = NumBoxes(out.a) + NumBoxes(out.b)
        /\ \A k \in 1..NumBoxes(out.a) : \E j \in 1..NumBoxes(out.val) :
              /\ out.val[2 * j] = out.a[2 * k]
              /\ DomOffset(out.val, j) = DomOffset(out.a, k)
        /\ \A k \in 1..NumBoxes(out.b) : \E j \in 1..NumBoxes(out.val) :
              /\ out.val[2 * j] = out.b[2 * k]
              /\ CodOffset(out.val, j) = CodOffset(out.b, k)

\* C14 as claimed: boxes_and_offsets of a layer (T0, B0, T1, B1, ..., Tn)
\* gives the boxes in order, each with the total width of everything
\* strictly to its left: offset(B0) = len(T0) and
\* offset(Bi) = offset(B(i-1)) + len(dom(B(i-1))) + len(Ti).
C14_BoxesAndOffsetsAsClaimed ==
    out.op = "boxes_and_offsets" =>
        /\ Len(out.val) = NumBoxes(out.a)
        /\ \A k \in 1..NumBoxes(out.a) :
              /\ out.val[k].box = out.a[2 * k]
              /\ out.val[k].offset = DomOffset(out.a, k)

(***************************************************************************)
(* The arguments of Layer(...) alternate Ty, Box, Ty, ..., Ty.             *)
(***************************************************************************)
Alternates(items) ==
    /\ Len(items) % 2 = 1
    /\ \A i \in 1..Len(items) :
          Kind(items[i]) = (IF i % 2 = 1 THEN "Ty" ELSE "Box")

\* C15 as claimed: Layer(...) accepts its arguments only if they are odd in
\* number and alternate Ty, Box, Ty, ..., Ty, and rejects any other
\* sequence with an error; an accepted layer's dom and cod are the
\* concatenations of the types and of the boxes' domains (codomains).
C15_LayerAlternatesAsClaimed ==
    out.op = "Layer" =>
        /\ out.ok => Alternates(out.a)
        /\ ~out.ok => out.err # ""
        /\ out.ok => /\ out.val = [i \in 1..Len(out.a) |-> Val(out.a[i])]
                     /\ LayerDom(out.val) = LayerDomFrom(out.val, 1)

\* C16 as claimed: decode(*encode(d)) == d for every diagram d, also one
\* whose layers hold several boxes.
C16_EncodeDecodeAsClaimed ==
    out.op = "decode" => (out.ok /\ out.val = out.a)

(***************************************************************************)
(* The length of the longest chain of boxes of a diagram, each taking a    *)
(* wire that the one before it gives out.                                  *)
(***************************************************************************)
RECURSIVE ChainTo(_, _)
ChainTo(edges, k) ==
    LET before == {e[1] : e \in {q \in edges : q[2] = k /\ q[1] # 0}}
        chains == {ChainTo(edges, j) : j \in before} \cup {0}
    IN  1 + (CHOOSE n \in chains : \A c \in chains : c <= n)

CriticalPath(d) ==
    LET edges == WireEdges(d, 1, [j \in 1..Len(d.dom) |-> 0])
        chains == {ChainTo(edges, k) : k \in 1..Len(d.inside)} \cup {0}
    IN  CHOOSE n \in chains : \A c \in chains : c <= n

\* C11 as claimed: depth(d) is the number of layers of foliation(d), and
\* it is minimal: it equals the length of the critical path of
\* wire-dependent boxes, so that no interchange-equivalent diagram splits
\* into fewer conflict-free merged layers.
C11_FoliationMinimalAsClaimed ==
    pc = "foliated" =>
        /\ out.i = Len(out.val.inside)
        /\ out.i = CriticalPath(f)

\* C17: composition is associative and the identity on dom (on cod) is its
\* left (right) unit: (f >> g) >> h = f >> (g >> h), and
\* id(f.dom) >> f = f = f >> id(f.cod), composing with an identity adding
\* no layer; a box equals, by Box.__eq__, the diagram obtained by composing
\* it with an identity.
C17_CategoryLaws ==
    /\ \A d \in Diagrams :
          /\ then(Id(d.dom), d) = d
          /\ then(d, Id(d.cod)) = d
    /\ (out.op = "then" /\ out.ok) =>
          /\ out.a.inside = <<>> =>
                /\ out.val = out.b
                /\ IsBoxDiagram(out.b) => BoxEq(out.b.inside[1][2], out.val)
          /\ out.b.inside = <<>> =>
                /\ out.val = out.a
                /\ IsBoxDiagram(out.a) => BoxEq(out.a.inside[1][2], out.val)
          /\ \A h \in {f, g, dagger(f), dagger(g)} :
                /\ Composable(out.val, h) =>
                      then(out.val, h) = then(out.a, then(out.b, h))
                /\ Composable(h, out.val) =>
                      then(h, out.val) = then(then(h, out.a), out.b)

C17_Witness ==
    /\ out.op = "then" /\ out.ok
    /\ Len(out.a.inside) = MaxLayers /\ Len(out.b.inside) = 1
    /\ out.a.dom # out.a.cod
    /\ \E h \in {g, dagger(f)} :
          /\ Len(h.inside) >= 1
          /\ Composable(out.val, h)
          /\ h.inside # out.b.inside

C17_WitnessUnit ==
    /\ out.op = "then" /\ out.ok
    /\ out.a.inside = <<>> /\ out.a.dom # <<>>
    /\ IsBoxDiagram(out.b) /\ out.b.dom # out.b.cod

\* The objects of t followed by the objects of u, position by position.
ObjectsInOrder(t, u) ==
    [i \in 1..(Len(t) + Len(u)) |-> IF i <= Len(t) THEN t[i] ELSE u[i - Len(t)]]

\* C18: types form a monoid under tensor: (x @ y) @ z = x @ (y @ z), the
\* empty type is a left and right unit, and the tensor of several types is
\* the concatenation of their objects in the order of the arguments.
C18_TyMonoid ==
    out.op = "tensor" =>
        /\ out.val.dom = ObjectsInOrder(out.a.dom, out.b.dom)
        /\ out.val.cod = ObjectsInOrder(out.a.cod, out.b.cod)
        /\ \A x \in {out.a.dom, out.a.cod}, y \in {out.b.dom, out.b.cod} :
              /\ TyTensor(x, y) = ObjectsInOrder(x, y)
              /\ TyTensor(x, Ty(<<>>)) = x
              /\ TyTensor(Ty(<<>>), x) = x
              /\ \A z \in {f.dom, f.cod, g.dom, g.cod} :
                    /\ TyTensor(TyTensor(x, y), z) = TyTensor(x, TyTensor(y, z))
                    /\ TyTensorAll(Ty(<<>>), <<x, y, z>>)
                          = ObjectsInOrder(ObjectsInOrder(x, y), z)
                    /\ TyTensorAll(x, <<y, z>>) = TyTensor(TyTensor(x, y), z)

C18_Witness ==
    /\ out.op = "tensor"
    /\ out.a.dom # <<>> /\ out.b.dom # <<>>
    /\ out.a.dom # out.b.dom
    /\ out.val.dom # TyTensor(out.b.dom, out.a.dom)
    /\ \E z \in {f.cod, g.cod} : z # <<>> /\ z # out.a.dom /\ z # out.b.dom

\* C19: the dagger is an involutive, contravariant, identity-on-objects
\* operation: f.dagger() has dom f.cod and cod f.dom, f.dagger().dagger()
\* is f, and (f >> g).dagger() = g.dagger() >> f.dagger(); the dagger of a
\* layer replaces each box by its dagger and keeps the types around it.
C19_Dagger ==
    /\ \A d \in Diagrams :
          /\ dagger(dagger(d)) = d
          /\ dagger(d).dom = d.cod
          /\ dagger(d).cod = d.dom
    /\ out.op = "dagger" =>
          /\ out.val.dom = out.a.cod
          /\ out.val.cod = out.a.dom
          /\ Len(out.val.inside) = Len(out.a.inside)
          /\ dagger(out.val) = out.a
          /\ \A i \in 1..Len(out.a.inside) :
                LET l == out.a.inside[i]
                    m == out.val.inside[Len(out.a.inside) + 1 - i]
                IN  /\ Len(m) = Len(l)
                    /\ m[1] = l[1]
                    /\ m[3] = l[3]
                    /\ m[2].name = l[2].name
                    /\ m[2].dom = l[2].cod
                    /\ m[2].cod = l[2].dom
                    /\ m[2].is_dagger = ~l[2].is_dagger
                    /\ LayerDom(m) = LayerCod(l)
                    /\ LayerCod(m) = LayerDom(l)
    /\ (out.op = "then" /\ out.ok) =>
          dagger(out.val) = then(dagger(out.b), dagger(out.a))

C19_Witness ==
    /\ out.op = "dagger"
    /\ Len(out.a.inside) = MaxLayers
    /\ out.a.dom # out.a.cod
    /\ out.a.inside[1][2] # out.a.inside[2][2]
    /\ \E i \in 1..Len(out.a.inside) :
          /\ out.a.inside[i][1] # <<>>
          /\ out.a.inside[i][2].dom # out.a.inside[i][2].cod

C19_WitnessThen ==
    /\ out.op = "then" /\ out.ok
    /\ Len(out.a.inside) >= 1 /\ Len(out.b.inside) >= 1
    /\ out.a.inside # out.b.inside
    /\ out.val.dom # out.val.cod
    /\ HasDagger(out.a) /\ ~HasDagger(out.b)

\* C20: the functor is a monoidal homomorphism: F of the empty type is the
\* empty type and F(x @ y) = F(x) @ F(y) on types; F(id(x)) = id(F(x));
\* F(f >> g) = F(f) >> F(g); and F(f @ g) = F(f) @ F(g) on diagrams.
C20_FunctorHomomorphism ==
    out.op = "functor" =>
        LET Ff == out.val
            Fg == FunctorDiagram(F, out.b)
        IN  /\ FunctorTy(F, Ty(<<>>)) = Ty(<<>>)
            /\ \A t \in {out.a.dom, out.a.cod}, u \in {out.b.dom, out.b.cod} :
                  FunctorTy(F, TyTensor(t, u))
                    = TyTensor(FunctorTy(F, t), FunctorTy(F, u))
            /\ Ff.dom = FunctorTy(F, out.a.dom)
            /\ Ff.cod = FunctorTy(F, out.a.cod)
            /\ LinesUp(Ff)
            /\ out.a.inside = <<>> => Ff = Id(FunctorTy(F, out.a.dom))
            /\ FunctorDiagram(F, Id(out.a.cod)) = Id(FunctorTy(F, out.a.cod))
            /\ Composable(out.a, out.b) =>
                  FunctorDiagram(F, then(out.a, out.b)) = then(Ff, Fg)
            /\ Composable(out.b, out.a) =>
                  FunctorDiagram(F, then(out.b, out.a)) = then(Fg, Ff)
            /\ FunctorDiagram(F, tensor(out.a, out.b)) = tensor(Ff, Fg)
            /\ FunctorDiagram(F, tensor(out.b, out.a)) = tensor(Fg, Ff)

C20_Witness ==
    /\ out.op = "functor"
    /\ Len(out.a.inside) = MaxLayers /\ Len(out.b.inside) = 1
    /\ Composable(out.a, out.b)
    /\ Len(out.val.inside) > Len(out.a.inside)
    /\ \E i \in 1..Len(out.a.inside) :
          out.a.inside[i][1] # <<>> \/ out.a.inside[i][3] # <<>>
    /\ out.a.dom # <<>> /\ out.b.cod # <<>>

C20_WitnessIdentity ==
    /\ out.op = "functor"
    /\ out.a.inside = <<>>
    /\ Len(out.a.dom) = 2 /\ Len(out.val.dom) = 3

\* C21 as claimed: the width of a diagram is the maximum of len(dom) and
\* the len of the cod of each layer; it is defined for every diagram, and
\* for an identity diagram it is len(dom).
C21_WidthAsClaimed ==
    out.op = "width" =>
        /\ out.ok
        /\ out.i >= Len(out.a.dom)
        /\ \A k \in 1..Len(out.a.inside) : out.i >= Len(LayerCod(out.a.inside[k]))
        /\ \/ out.i = Len(out.a.dom)
           \/ \E k \in 1..Len(out.a.inside) : out.i = Len(LayerCod(out.a.inside[k]))
        /\ out.a.inside = <<>> => out.i = Len(out.a.dom)

\* The part of C21 the code meets: on a diagram of at least one layer the
\* width is that maximum.
C21_WidthOfLayers ==
    (out.op = "width" /\ out.a.inside # <<>>) =>
        /\ out.ok
        /\ out.i >= Len(out.a.dom)
        /\ \A k \in 1..Len(out.a.inside) : out.i >= Len(LayerCod(out.a.inside[k]))
        /\ \/ out.i = Len(out.a.dom)
           \/ \E k \in 1..Len(out.a.inside) : out.i = Len(LayerCod(out.a.inside[k]))

\* C22: Ty.tensor and PRO.tensor fail with a type error, giving no type,
\* whenever an operand is of the other flavour, in either order; the tensor
\* of types of one flavour always succeeds and concatenates them.
C22_TensorFlavours ==
    out.op = "tensor" =>
        LET mixed == \E i \in 1..Len(out.b) : out.b[i].factory # out.a.factory
        IN  /\ out.ok <=> ~mixed
            /\ ~out.ok => (out.err = "TypeError" /\ out.val = <<>>)
            /\ out.ok =>
                  /\ out.val.factory = out.a.factory
                  /\ Inside(out.val) = Inside(out.a) \o InsideFrom(out.b, 1)

C22_Witness ==
    /\ out.op = "tensor" /\ ~out.ok
    /\ out.a.factory = "Ty" /\ out.a.inside # <<>>
    /\ Len(out.b) = 2
    /\ out.b[1].factory = "PRO" /\ out.b[1].n > 0
    /\ out.b[2].factory = "PRO"

C22_WitnessOtherOrder ==
    /\ out.op = "tensor" /\ ~out.ok
    /\ out.a.factory = "PRO" /\ out.b[1].factory = "Ty"

C22_WitnessSameFlavour ==
    /\ out.op = "tensor" /\ out.ok
    /\ out.a.factory = "PRO" /\ out.a.n > 0
    /\ Len(out.b) = 2 /\ out.b[1].n > 0

\* C23 as claimed: PRO(n) behaves as the Ty of n copies of the unnamed
\* object: PRO(n) @ PRO(m) = PRO(n + m), len(PRO(n)) = n,
\* PRO(n) ** k = PRO(n * k), a slice of PRO(n) is the PRO of the slice's
\* length, and PRO(n) and the Ty of n unnamed objects are equal, whichever
\* is on the left.
C23_PROAsTyAsClaimed ==
    /\ (out.op = "tensor" /\ out.a.factory = "PRO"
          /\ \A i \in 1..Len(out.b) : out.b[i].factory = "PRO") =>
          (out.ok /\ out.val = PRO(out.a.n + SumOfN(out.b, 1)))
    /\ (out.op = "len" /\ out.a.factory = "PRO") => out.val = out.a.n
    /\ (out.op = "pow" /\ out.a.factory = "PRO") =>
          (out.ok /\ out.val = PRO(out.a.n * out.b))
    /\ (out.op = "slice" /\ out.a.factory = "PRO") =>
          out.val = PRO(Len(TySlice(Inside(out.a), out.b[1], out.b[2])))
    /\ out.op = "eq" =>
          /\ out.val = TypesEqual(out.b, out.a)
          /\ Inside(out.a) = Inside(out.b) => out.val

\* The part of C23 the code meets: the operations on PRO alone, and the
\* symmetry of equality.
C23_PROAlone ==
    /\ (out.op = "tensor" /\ out.a.factory = "PRO"
          /\ \A i \in 1..Len(out.b) : out.b[i].factory = "PRO") =>
          (out.ok /\ out.val = PRO(out.a.n + SumOfN(out.b, 1)))
    /\ (out.op = "len" /\ out.a.factory = "PRO") => out.val = out.a.n
    /\ (out.op = "pow" /\ out.a.factory = "PRO") =>
          (out.ok /\ out.val = PRO(out.a.n * out.b))
    /\ (out.op = "slice" /\ out.a.factory = "PRO") =>
          out.val = PRO(Len(TySlice(Inside(out.a), out.b[1], out.b[2])))
    /\ out.op = "eq" => out.val = TypesEqual(out.b, out.a)

\* A diagram seen as the sum of one term.
OneTerm(v) == IF IsSum(v) THEN v ELSE Sum(<<v>>, v.dom, v.cod)

\* C24: tensor distributes over sums: for S of terms f_1..f_m and T of terms
\* g_1..g_n, S @ T is the sum of the m * n terms f_i @ g_j in row-major
\* order, with dom S.dom @ T.dom and cod S.cod @ T.cod; a plain diagram on
\* either side counts as a sum of one term, and a sum of no term tensored
\* with anything has no term.
C24_TensorBilinear ==
    out.op = "tensor" =>
        LET S == OneTerm(out.a)
            T == OneTerm(out.b)
            m == Len(S.terms)
            n == Len(T.terms)
        IN  /\ out.ok
            /\ IsSum(out.val)
            /\ out.val.dom = ObjectsInOrder(S.dom, T.dom)
            /\ out.val.cod = ObjectsInOrder(S.cod, T.cod)
            /\ Len(out.val.terms) = m * n
            /\ \A i \in 1..m, j \in 1..n :
                  out.val.terms[(i - 1) * n + j] = tensor(S.terms[i], T.terms[j])
            /\ (m = 0 \/ n = 0) => out.val.terms = <<>>

C24_Witness ==
    /\ out.op = "tensor"
    /\ IsSum(out.a) /\ IsSum(out.b)
    /\ Len(out.a.terms) = 2 /\ Len(out.b.terms) = 2
    /\ out.a.terms[1] # out.a.terms[2]
    /\ out.b.terms[1] # out.b.terms[2]
    /\ out.a.dom # out.b.dom

C24_WitnessDiagramLeft ==
    /\ out.op = "tensor"
    /\ ~IsSum(out.a) /\ IsSum(out.b) /\ Len(out.b.terms) = 2

C24_WitnessDiagramRight ==
    /\ out.op = "tensor"
    /\ IsSum(out.a) /\ ~IsSum(out.b) /\ Len(out.a.terms) = 2

C24_WitnessNoTerm ==
    /\ out.op = "tensor"
    /\ IsSum(out.a) /\ out.a.terms = <<>>
    /\ IsSum(out.b) /\ Len(out.b.terms) = 2

\* A failed call made again on the operands it was given fails again.
FailsAgain(o) ==
    /\ (o.op = "then" /\ ~o.ok) => ThenOutcome(o.a, o.b) = o
    /\ (o.op = "interchange" /\ ~o.ok) =>
          \A r \in interchange(o.a, o.i) : ~r.ok
    /\ (o.op = "width" /\ ~o.ok) => ~width(o.a).ok

C25_WitnessReturns ==
    /\ out.op = "tensor" /\ out.ok
    /\ Len(f.inside) = MaxLayers /\ Len(g.inside) = 1
    /\ out.val # f /\ out.val # g

(***************************************************************************)
(* The layers of one box each that a layer of several boxes stands for,    *)
(* its boxes taken from left to right, and the diagram a foliation         *)
(* flattens to.                                                            *)
(***************************************************************************)
FlatLayer(l) ==
    [k \in 1..NumBoxes(l) |->
        Layer(LayerCod(SubSeq(l, 1, 2 * k - 1)), l[2 * k],
              LayerDom(SubSeq(l, 2 * k + 1, Len(l))))]

RECURSIVE FlatLayers(_, _)
FlatLayers(layers, k) ==
    IF k > Len(layers) THEN <<>>
    ELSE FlatLayer(layers[k]) \o FlatLayers(layers, k + 1)

Flat(d) == Diagram(FlatLayers(d.inside, 1), d.dom, d.cod)

\* C26 as claimed: foliation is sound: its output has the dom and cod of
\* the input, consecutive layers of it compose, it holds the boxes of the
\* input, each as many times, no layer of it holds two boxes of which one
\* takes a wire of the other (so it has at least as many layers as the
\* longest chain of such boxes), and flattening its layers from left to
\* right gives a diagram equal to the input up to interchanges, that is
\* with the same normal form.
C26_FoliationSoundAsClaimed ==
    pc = "foliated" =>
        /\ out.val.dom = out.a.dom
        /\ out.val.cod = out.a.cod
        /\ LinesUp(out.val)
        /\ Len(Flat(out.val).inside) = Len(out.a.inside)
        /\ \A b \in {boxes(out.a)[i] : i \in 1..Len(out.a.inside)} :
              Cardinality({i \in 1..Len(out.a.inside) : boxes(out.a)[i] = b})
                = Cardinality({i \in 1..Len(out.a.inside) : boxes(Flat(out.val))[i] = b})
        /\ Len(out.val.inside) >= CriticalPath(out.a)
        /\ LinesUp(Flat(out.val))
        /\ BoundaryConnected(out.a) => normal_form(Flat(out.val)) = normal_form(out.a)

(***************************************************************************)
(* The names of the contexts a thread is inside of, outermost first, and   *)
(* the name of the innermost, the default backend when it is inside none.  *)
(***************************************************************************)
ActiveNames(t) == [i \in 1..Len(nf[t]) |-> nf[t][i].name]

InnermostOf(t) ==
    IF nf[t] = <<>> THEN DEFAULT_BACKEND ELSE nf[t][Len(nf[t])].name

\* C27: the backend stack is balanced: whenever the thread is in a body or
\* outside every context, the stack is the default backend followed by the
\* names of the contexts it is inside of, so that leaving a context, an
\* entry that failed on an unknown name and a body that raised all give
\* back the stack there was before the entry; the stack is never empty and
\* its bottom is the default backend; get_backend returns the backend of
\* the innermost context, the default one outside every context.
C27_StackBalanced ==
    /\ f # <<>>
    /\ f[1] = DEFAULT_BACKEND
    /\ pc[1] = "body" => f = <<DEFAULT_BACKEND>> \o ActiveNames(1)
    /\ pc[1] \in {"lookup", "construct", "yield"} =>
          f = (<<DEFAULT_BACKEND>> \o ActiveNames(1)) \o <<out[1].name>>
    /\ (pc[1] = "body" /\ out[1].op = "got") =>
          /\ out[1].name = InnermostOf(1)
          /\ out[1].val = g[InnermostOf(1)]
          /\ out[1].val.class = BACKENDS[InnermostOf(1)]

C27_Witness ==
    /\ pc[1] = "body"
    /\ out[1].op = "failed" /\ out[1].err = "KeyError"
    /\ Len(nf[1]) = 1 /\ nf[1][1].name = "jax"

C27_WitnessBodyRaises ==
    /\ pc[1] = "body"
    /\ out[1].op = "left" /\ out[1].err = "BodyError"
    /\ Len(nf[1]) = 1 /\ out[1].name # nf[1][1].name

C27_WitnessGet ==
    /\ pc[1] = "body"
    /\ out[1].op = "got"
    /\ Len(nf[1]) = MaxDepth /\ InnermostOf(1) = "jax"

\* C28 as claimed: with two threads, get_backend called in a thread returns
\* the backend of the context that thread itself entered last, or the
\* default backend when it is inside none, under every interleaving; and
\* each exit pops the entry its own thread pushed.
C28_ThreadsIsolatedAsClaimed ==
    \A t \in DOMAIN pc :
        /\ (pc[t] = "body" /\ out[t].op \in {"got", "failed"} /\ out[t].arg = "") =>
              /\ out[t].op = "got"
              /\ out[t].val.class = BACKENDS[InnermostOf(t)]
        /\ (pc[t] = "body" /\ out[t].op \in {"got", "left", "failed"}) =>
              out[t].popped = out[t].name

\* C29: the cache builds a backend on the first entry with its name and
\* never again: the objects built are as many as the names cached, an
\* entry yields the object cached under its name, which is the one every
\* context still open under that name was given; an entry in the cache is
\* never removed or replaced; a name not in BACKENDS is never cached; and
\* the cache only changes by the construct step of an entry with the name
\* added.
C29_CacheOncePerName ==
    /\ [](/\ DOMAIN g \subseteq DOMAIN BACKENDS
          /\ moves = Cardinality(DOMAIN g)
          /\ \A n \in DOMAIN g : g[n].class = BACKENDS[n]
          /\ \A n \in DOMAIN g, m \in DOMAIN g : (g[n].id = g[m].id) => n = m
          /\ out[1].op = "entered" => out[1].val = g[out[1].name]
          /\ \A i \in 1..Len(nf[1]) : nf[1][i].val = g[nf[1][i].name])
    /\ [][/\ \A n \in DOMAIN g : n \in DOMAIN g' /\ g'[n] = g[n]
          /\ g' # g => /\ pc[1] = "construct"
                       /\ DOMAIN g' = DOMAIN g \cup {out[1].name}]_vars

C29_Witness ==
    /\ out[1].op = "entered" /\ out[1].name = "jax"
    /\ Len(nf[1]) = MaxDepth
    /\ nf[1][1].name = "jax" /\ nf[1][2].name = "jax"
    /\ moves = 2

C29_WitnessUnknown ==
    /\ out[1].op = "failed" /\ out[1].arg = "bogus"
    /\ moves >= 1

\* C30: for a length n >= 0 and an index 0 <= i < 2^n, index2bitstring(i, n)
\* is a tuple of exactly n bits, the most significant first (the k-th bit
\* is the digit of weight 2^(n-k) of i), empty for n = 0, and
\* bitstring2index gives i back from it; for i >= 2^n index2bitstring
\* raises ValueError.
C30_BitstringRoundTrip ==
    /\ out.op \in {"index2bitstring", "bitstring2index"} =>
          /\ out.i = f /\ out.length = g
          /\ IF out.i < 2 ^ out.length
             THEN /\ out.ok
                  /\ Len(out.bits) = out.length
                  /\ \A k \in 1..out.length :
                        out.bits[k] = (out.i \div 2 ^ (out.length - k)) % 2
                  /\ out.length = 0 => out.bits = <<>>
             ELSE /\ ~out.ok
                  /\ out.err = "ValueError"
    /\ out.op = "bitstring2index" => out.index = out.i
    /\ \A k \in 1..Len(nf) :
          /\ Len(nf[k]) = g
          /\ bitstring2index(nf[k]) = k - 1

C30_Witness ==
    /\ out.op = "bitstring2index"
    /\ out.length = 3
    /\ out.i = 6
    /\ out.bits = <<1, 1, 0>>
    /\ out.index = 6

C30_WitnessGetCounts ==
    /\ g = 2
    /\ nf = <<(<<0, 0>>), (<<0, 1>>), (<<1, 0>>), (<<1, 1>>)>>

C30_WitnessEmpty ==
    /\ out.op = "bitstring2index"
    /\ out.length = 0
    /\ out.bits = <<>>

C30_WitnessTooLarge ==
    /\ out.op = "index2bitstring"
    /\ out.i = 2 ^ out.length
    /\ out.length = MaxBits
    /\ ~out.ok

====
